---- MODULE Spec2Model ----
(***************************************************************************)
(* Model of the repair scripts clean_test_utils.py, fix_test_utils.py and   *)
(* fix_remaining_syntax.py.                                                 *)
(*                                                                          *)
(* A Python str is a sequence of characters.  A printable ASCII character,   *)
(* the tab, the line feed and the carriage return are one-character strings; *)
(* every other character (the backtick too, which a TLA+ string cannot hold) *)
(* is the string "U+" followed by its code point in upper-case hexadecimal,  *)
(* at least four digits: "U+00A0", "U+1F535".                                *)
(* A list of lines is a sequence of such sequences.  Indices are 0-based as *)
(* in the source: At(s, i) is s[i] and Slice(s, a, b) is s[a:b].            *)
(***************************************************************************)
EXTENDS Integers, Sequences, FiniteSets, TLC

VARIABLES
    pc,            \* position of the running script
    file,          \* content of src/testing/test-utils.ts on disk
    file0,         \* the file as it was when the running script opened it (history)
    writes,        \* number of times the script wrote the file
    printed,       \* what the script printed, in order
    content,       \* content = f.read()
    lines,         \* lines = content.split('\n')
    i,             \* loop index over lines
    start_line,    \* clean_test_utils: start_line
    end_line,      \* clean_test_utils: end_line
    brace_count,   \* clean_test_utils: brace_count
    combined,      \* clean_test_utils: before_responses + new_responses + after_responses
    fixed_lines,   \* fix_test_utils: fixed_lines
    bracket_count, \* fix_test_utils: bracket_count
    paren_count,   \* fix_test_utils: paren_count
    run,           \* fix_test_utils: how many times the script was started
    scan_of,       \* fix_test_utils: for each line the inner loop consumed, the index of
                   \* the opener line whose scan consumed it (history)
    fs,            \* fix_remaining_syntax: for each path, whether it exists and its content
    fs0,           \* fix_remaining_syntax: fs as it was when main started (history)
    file_idx,      \* fix_remaining_syntax: position of main's loop in files_to_fix
    fixed_count,   \* fix_remaining_syntax: fixed_count
    calls          \* fix_remaining_syntax: the calls of fix_file_syntax_errors so far, each
                   \* with its path, its result and whether it wrote the file (history)

\* Bound on the number of lines of an input document.
MaxLines == 4

\* Bound on the number of times fix_test_utils.py is run on the file.
MaxRuns == 2

\* Python's None, for start_line and end_line (both are line indices >= 0 otherwise).
None == -1

NL == "\n"

\* ---------------------------------------------------------------- str and list

At(s, k) == s[k + 1]

\* s[a:b] for 0 <= a: an end past the last character is the end of s
Slice(s, a, b) == IF a >= Len(s) THEN <<>> ELSE SubSeq(s, a + 1, IF b > Len(s) THEN Len(s) ELSE b)

\* line.count(c) for a one-character c
Count(line, c) == Cardinality({k \in 1..Len(line) : line[k] = c})

\* sub in line
Contains(line, sub) ==
    \E k \in 0..(Len(line) - Len(sub)) : Slice(line, k, k + Len(sub)) = sub

\* sep.join(parts)
RECURSIVE Join(_, _)
Join(sep, parts) ==
    IF Len(parts) = 0 THEN <<>>
    ELSE IF Len(parts) = 1 THEN parts[1]
    ELSE LET h == Len(parts) \div 2
         IN  Join(sep, SubSeq(parts, 1, h)) \o sep \o Join(sep, SubSeq(parts, h + 1, Len(parts)))

\* text.split(c) for a one-character separator c: the pieces between the
\* occurrences of c, empty pieces included; the empty text gives [''].
SplitAt(text, c) ==
    LET cuts == {k \in 1..Len(text) : text[k] = c}
        n    == Cardinality(cuts)
        \* position of the j-th separator, 0 before the text and Len+1 after it
        cut(j) == IF j = 0 THEN 0
                  ELSE IF j = n + 1 THEN Len(text) + 1
                  ELSE CHOOSE p \in cuts : Cardinality({q \in cuts : q < p}) = j - 1
    IN  [j \in 1..(n + 1) |-> SubSeq(text, cut(j - 1) + 1, cut(j) - 1)]

\* f.read() of a file opened in text mode: "\r\n" and a "\r" alone are read as "\n".
\* (f.write() in text mode writes "\n" as the line separator of the platform, "\n".)
ReadText(raw) ==
    LET read == [k \in 1..Len(raw) |->
                    IF raw[k] # "\r" THEN raw[k]
                    ELSE IF k < Len(raw) /\ raw[k + 1] = NL THEN "" ELSE NL]
    IN  SelectSeq(read, LAMBDA c : c # "")

\* ---------------------------------------------------------------- clean_test_utils.py

Marker ==
    <<"c", "o", "n", "s", "t", " ", "r", "e", "s", "p", "o", "n", "s", "e", "s", ":", " ", "R", "e",
    "c", "o", "r", "d", "<", "s", "t", "r", "i", "n", "g", ",", " ", "(", "a", "r", "g", "s", ":",
    " ", "a", "n", "y", ")", " ", "=", ">", " ", "a", "n", "y", ">", " ", "=", " ", "{">>

\* new_responses, the replacement lines
new_responses ==
  <<
    <<" ", " ", "c", "o", "n", "s", "t", " ", "r", "e", "s", "p", "o", "n", "s", "e", "s", ":", " ",
        "R", "e", "c", "o", "r", "d", "<", "s", "t", "r", "i", "n", "g", ",", " ", "(", "a", "r", "g",
        "s", ":", " ", "a", "n", "y", ")", " ", "=", ">", " ", "a", "n", "y", ">", " ", "=", " ", "{">>,
    <<" ", " ", " ", " ", "'", "a", "g", "e", "n", "t", ".", "p", "r", "o", "p", "e", "r", "t", "y",
        ".", "a", "n", "a", "l", "y", "s", "i", "s", "'", ":", " ", "(", "a", "r", "g", "s", ")", " ",
        "=", ">", " ", "(", "{">>,
    <<" ", " ", " ", " ", " ", " ", "c", "o", "n", "t", "e", "n", "t", ":", " ", "[">>,
    <<" ", " ", " ", " ", " ", " ", " ", " ", "{">>,
    <<" ", " ", " ", " ", " ", " ", " ", " ", " ", " ", "t", "y", "p", "e", ":", " ", "'", "t", "e",
        "x", "t", "'", ",">>,
    <<" ", " ", " ", " ", " ", " ", " ", " ", " ", " ", "t", "e", "x", "t", ":", " ", "U+0060", "#",
        " ", "P", "r", "o", "p", "e", "r", "t", "y", " ", "A", "n", "a", "l", "y", "s", "i", "s", " ",
        "f", "o", "r", " ", "$", "{", "a", "r", "g", "s", ".", "c", "o", "n", "t", "e", "x", "t", "?",
        ".", "d", "o", "m", "a", "i", "n", " ", "|", "|", " ", "'", "d", "o", "m", "a", "i", "n", "'",
        "}">>,
    <<>>,
    <<"#", "#", " ", "R", "e", "c", "o", "m", "m", "e", "n", "d", "e", "d", " ", "P", "r", "o", "d",
        "u", "c", "t">>,
    <<"*", "*", "I", "o", "n", " ", "S", "t", "a", "n", "d", "a", "r", "d", "*", "*", " ", "(", "p",
        "r", "d", "_", "F", "r", "e", "s", "c", "a", ")", " ", "-", " ", "B", "e", "s", "t", " ", "f",
        "o", "r", " ", "g", "e", "n", "e", "r", "a", "l", " ", "w", "e", "b", " ", "a", "c", "c", "e",
        "l", "e", "r", "a", "t", "i", "o", "n">>,
    <<>>,
    <<"#", "#", " ", "C", "o", "n", "f", "i", "g", "u", "r", "a", "t", "i", "o", "n", " ", "R", "e",
        "c", "o", "m", "m", "e", "n", "d", "a", "t", "i", "o", "n", "s">>,
    <<"-", " ", "O", "r", "i", "g", "i", "n", " ", "s", "e", "r", "v", "e", "r", ":", " ", "$", "{",
        "a", "r", "g", "s", ".", "c", "o", "n", "t", "e", "x", "t", "?", ".", "o", "r", "i", "g", "i",
        "n", " ", "|", "|", " ", "'", "o", "r", "i", "g", "i", "n", ".", "e", "x", "a", "m", "p", "l",
        "e", ".", "c", "o", "m", "'", "}">>,
    <<"-", " ", "C", "a", "c", "h", "i", "n", "g", ":", " ", "S", "t", "a", "n", "d", "a", "r", "d",
        " ", "w", "e", "b", " ", "c", "o", "n", "t", "e", "n", "t">>,
    <<"-", " ", "C", "o", "m", "p", "r", "e", "s", "s", "i", "o", "n", ":", " ", "E", "n", "a", "b",
        "l", "e", "d">>,
    <<"-", " ", "H", "T", "T", "P", "/", "2", " ", "o", "p", "t", "i", "m", "i", "z", "a", "t", "i",
        "o", "n", ":", " ", "E", "n", "a", "b", "l", "e", "d">>,
    <<>>,
    <<"#", "#", " ", "N", "e", "x", "t", " ", "S", "t", "e", "p", "s">>,
    <<"1", ".", " ", "C", "r", "e", "a", "t", "e", " ", "p", "r", "o", "p", "e", "r", "t", "y", " ",
        "w", "i", "t", "h", " ", "I", "o", "n", " ", "S", "t", "a", "n", "d", "a", "r", "d", " ", "p",
        "r", "o", "d", "u", "c", "t">>,
    <<"2", ".", " ", "C", "o", "n", "f", "i", "g", "u", "r", "e", " ", "o", "r", "i", "g", "i", "n",
        " ", "a", "n", "d", " ", "h", "o", "s", "t", "n", "a", "m", "e", "s">>,
    <<"3", ".", " ", "T", "e", "s", "t", " ", "o", "n", " ", "s", "t", "a", "g", "i", "n", "g", " ",
        "n", "e", "t", "w", "o", "r", "k">>,
    <<"4", ".", " ", "A", "c", "t", "i", "v", "a", "t", "e", " ", "t", "o", " ", "p", "r", "o", "d",
        "u", "c", "t", "i", "o", "n", "U+0060", ",">>,
    <<" ", " ", " ", " ", " ", " ", " ", " ", "}", ",">>,
    <<" ", " ", " ", " ", " ", " ", "]", ",">>,
    <<" ", " ", " ", " ", "}", ")", ",">>,
    <<>>,
    <<" ", " ", " ", " ", "'", "p", "r", "o", "p", "e", "r", "t", "y", ".", "c", "r", "e", "a", "t",
        "e", "'", ":", " ", "(", "a", "r", "g", "s", ")", " ", "=", ">", " ", "{">>,
    <<" ", " ", " ", " ", " ", " ", "/", "/", " ", "H", "a", "n", "d", "l", "e", " ", "r", "e", "t",
        "r", "y", " ", "w", "i", "t", "h", " ", "c", "o", "r", "r", "e", "c", "t", "e", "d", " ", "n",
        "a", "m", "e", " ", "f", "i", "r", "s", "t">>,
    <<" ", " ", " ", " ", " ", " ", "i", "f", " ", "(", "a", "r", "g", "s", ".", "p", "r", "o", "p",
        "e", "r", "t", "y", "N", "a", "m", "e", " ", "=", "=", "=", " ", "'", "i", "n", "v", "a", "l",
        "i", "d", "-", "d", "o", "m", "a", "i", "n", ".", "c", "o", "m", "'", ")", " ", "{">>,
    <<" ", " ", " ", " ", " ", " ", " ", " ", "r", "e", "t", "u", "r", "n", " ", "{">>,
    <<" ", " ", " ", " ", " ", " ", " ", " ", " ", " ", "c", "o", "n", "t", "e", "n", "t", ":", " ",
        "[">>,
    <<" ", " ", " ", " ", " ", " ", " ", " ", " ", " ", " ", " ", "{">>,
    <<" ", " ", " ", " ", " ", " ", " ", " ", " ", " ", " ", " ", " ", " ", "t", "y", "p", "e", ":",
        " ", "'", "t", "e", "x", "t", "'", ",">>,
    <<" ", " ", " ", " ", " ", " ", " ", " ", " ", " ", " ", " ", " ", " ", "t", "e", "x", "t", ":",
        " ", "U+0060", "U+2705", " ", "*", "*", "P", "r", "o", "p", "e", "r", "t", "y", " ", "C", "r",
        "e", "a", "t", "e", "d", " ", "S", "u", "c", "c", "e", "s", "s", "f", "u", "l", "l", "y", "!",
        "*", "*">>,
    <<>>,
    <<"#", "#", " ", "P", "r", "o", "p", "e", "r", "t", "y", " ", "D", "e", "t", "a", "i", "l",
        "s">>,
    <<"-", " ", "*", "*", "N", "a", "m", "e", ":", "*", "*", " ", "$", "{", "a", "r", "g", "s", ".",
        "p", "r", "o", "p", "e", "r", "t", "y", "N", "a", "m", "e", "}">>,
    <<"-", " ", "*", "*", "P", "r", "o", "p", "e", "r", "t", "y", " ", "I", "D", ":", "*", "*", " ",
        "p", "r", "p", "_", "1", "2", "4">>,
    <<"-", " ", "*", "*", "P", "r", "o", "d", "u", "c", "t", ":", "*", "*", " ", "I", "o", "n", " ",
        "S", "t", "a", "n", "d", "a", "r", "d">>,
    <<"-", " ", "*", "*", "C", "o", "n", "t", "r", "a", "c", "t", ":", "*", "*", " ", "C", "o", "n",
        "t", "r", "a", "c", "t", " ", "$", "{", "a", "r", "g", "s", ".", "c", "o", "n", "t", "r", "a",
        "c", "t", "I", "d", "}">>,
    <<"-", " ", "*", "*", "G", "r", "o", "u", "p", ":", "*", "*", " ", "G", "r", "o", "u", "p", " ",
        "$", "{", "a", "r", "g", "s", ".", "g", "r", "o", "u", "p", "I", "d", "}">>,
    <<"-", " ", "*", "*", "S", "t", "a", "t", "u", "s", ":", "*", "*", " ", "U+1F535", " ", "N", "E",
        "W", " ", "(", "N", "o", "t", " ", "y", "e", "t", " ", "a", "c", "t", "i", "v", "a", "t", "e",
        "d", ")">>,
    <<>>,
    <<"S", "u", "c", "c", "e", "s", "s", "f", "u", "l", "l", "y", " ", "c", "r", "e", "a", "t", "e",
        "d", " ", "p", "r", "o", "p", "e", "r", "t", "y", " ", "w", "i", "t", "h", " ", "c", "o", "r",
        "r", "e", "c", "t", "e", "d", " ", "n", "a", "m", "e", ".", "U+0060", ",">>,
    <<" ", " ", " ", " ", " ", " ", " ", " ", " ", " ", " ", " ", "}", ",">>,
    <<" ", " ", " ", " ", " ", " ", " ", " ", " ", " ", "]", ",">>,
    <<" ", " ", " ", " ", " ", " ", " ", " ", "}", ";">>,
    <<" ", " ", " ", " ", " ", " ", "}">>,
    <<" ", " ", " ", " ", " ", " ", "/", "/", " ", "H", "a", "n", "d", "l", "e", " ", "v", "a", "l",
        "i", "d", "a", "t", "i", "o", "n", " ", "e", "r", "r", "o", "r", "s", " ", "f", "o", "r", " ",
        "i", "n", "v", "a", "l", "i", "d", " ", "n", "a", "m", "e", "s">>,
    <<" ", " ", " ", " ", " ", " ", "i", "f", " ", "(", "a", "r", "g", "s", ".", "p", "r", "o", "p",
        "e", "r", "t", "y", "N", "a", "m", "e", "?", ".", "i", "n", "c", "l", "u", "d", "e", "s", "(",
        "'", " ", "'", ")", " ", "|", "|", " ", "a", "r", "g", "s", ".", "p", "r", "o", "p", "e", "r",
        "t", "y", "N", "a", "m", "e", "?", ".", "i", "n", "c", "l", "u", "d", "e", "s", "(", "'", "!",
        "@", "#", "'", ")", ")", " ", "{">>,
    <<" ", " ", " ", " ", " ", " ", " ", " ", "r", "e", "t", "u", "r", "n", " ", "{">>,
    <<" ", " ", " ", " ", " ", " ", " ", " ", " ", " ", "c", "o", "n", "t", "e", "n", "t", ":", " ",
        "[">>,
    <<" ", " ", " ", " ", " ", " ", " ", " ", " ", " ", " ", " ", "{">>,
    <<" ", " ", " ", " ", " ", " ", " ", " ", " ", " ", " ", " ", " ", " ", "t", "y", "p", "e", ":",
        " ", "'", "t", "e", "x", "t", "'", ",">>,
    <<" ", " ", " ", " ", " ", " ", " ", " ", " ", " ", " ", " ", " ", " ", "t", "e", "x", "t", ":",
        " ", "U+0060", "U+274C", " ", "C", "a", "n", "n", "o", "t", " ", "c", "r", "e", "a", "t", "e",
        " ", "p", "r", "o", "p", "e", "r", "t", "y", " ", "-", " ", "v", "a", "l", "i", "d", "a", "t",
        "i", "o", "n", " ", "e", "r", "r", "o", "r", "s", ":">>,
    <<>>,
    <<"-", " ", "P", "r", "o", "p", "e", "r", "t", "y", " ", "n", "a", "m", "e", " ", "c", "o", "n",
        "t", "a", "i", "n", "s", " ", "i", "n", "v", "a", "l", "i", "d", " ", "c", "h", "a", "r", "a",
        "c", "t", "e", "r", "s">>,
    <<>>,
    <<"P", "r", "o", "p", "e", "r", "t", "y", " ", "n", "a", "m", "e", " ", "c", "a", "n", " ", "o",
        "n", "l", "y", " ", "c", "o", "n", "t", "a", "i", "n", " ", "l", "e", "t", "t", "e", "r", "s",
        ",", " ", "n", "u", "m", "b", "e", "r", "s", ",", " ", "h", "y", "p", "h", "e", "n", "s", ",",
        " ", "d", "o", "t", "s", ",", " ", "a", "n", "d", " ", "u", "n", "d", "e", "r", "s", "c", "o",
        "r", "e", "s">>,
    <<>>,
    <<"*", "*", "S", "u", "g", "g", "e", "s", "t", "i", "o", "n", ":", "*", "*", " ", "T", "r", "y",
        " ", "u", "s", "i", "n", "g", " ", "a", " ", "v", "a", "l", "i", "d", " ", "n", "a", "m", "e",
        " ", "i", "n", "s", "t", "e", "a", "d", ",", " ", "s", "u", "c", "h", " ", "a", "s", " ", "\"",
        "$", "{", "a", "r", "g", "s", ".", "p", "r", "o", "p", "e", "r", "t", "y", "N", "a", "m", "e",
        "?", ".", "r", "e", "p", "l", "a", "c", "e", "(", "/", "[", "^", "a", "-", "z", "A", "-", "Z",
        "0", "-", "9", ".", "-", "_", "]", "/", "g", ",", " ", "'", "-", "'", ")", "}", "\"", "U+0060",
        ",">>,
    <<" ", " ", " ", " ", " ", " ", " ", " ", " ", " ", " ", " ", "}", ",">>,
    <<" ", " ", " ", " ", " ", " ", " ", " ", " ", " ", "]", ",">>,
    <<" ", " ", " ", " ", " ", " ", " ", " ", "}", ";">>,
    <<" ", " ", " ", " ", " ", " ", "}">>,
    <<" ", " ", " ", " ", " ", " ", "r", "e", "t", "u", "r", "n", " ", "{">>,
    <<" ", " ", " ", " ", " ", " ", " ", " ", "c", "o", "n", "t", "e", "n", "t", ":", " ", "[">>,
    <<" ", " ", " ", " ", " ", " ", " ", " ", " ", " ", "{">>,
    <<" ", " ", " ", " ", " ", " ", " ", " ", " ", " ", " ", " ", "t", "y", "p", "e", ":", " ", "'",
        "t", "e", "x", "t", "'", ",">>,
    <<" ", " ", " ", " ", " ", " ", " ", " ", " ", " ", " ", " ", "t", "e", "x", "t", ":", " ",
        "U+0060", "U+2705", " ", "*", "*", "P", "r", "o", "p", "e", "r", "t", "y", " ", "C", "r", "e",
        "a", "t", "e", "d", " ", "S", "u", "c", "c", "e", "s", "s", "f", "u", "l", "l", "y", "!", "*",
        "*">>,
    <<>>,
    <<"#", "#", " ", "P", "r", "o", "p", "e", "r", "t", "y", " ", "D", "e", "t", "a", "i", "l",
        "s">>,
    <<"-", " ", "*", "*", "N", "a", "m", "e", ":", "*", "*", " ", "$", "{", "a", "r", "g", "s", ".",
        "p", "r", "o", "p", "e", "r", "t", "y", "N", "a", "m", "e", "}">>,
    <<"-", " ", "*", "*", "P", "r", "o", "p", "e", "r", "t", "y", " ", "I", "D", ":", "*", "*", " ",
        "p", "r", "p", "_", "1", "2", "3">>,
    <<"-", " ", "*", "*", "P", "r", "o", "d", "u", "c", "t", ":", "*", "*", " ", "I", "o", "n", " ",
        "S", "t", "a", "n", "d", "a", "r", "d">>,
    <<"-", " ", "*", "*", "C", "o", "n", "t", "r", "a", "c", "t", ":", "*", "*", " ", "C", "o", "n",
        "t", "r", "a", "c", "t", " ", "$", "{", "a", "r", "g", "s", ".", "c", "o", "n", "t", "r", "a",
        "c", "t", "I", "d", "}">>,
    <<"-", " ", "*", "*", "G", "r", "o", "u", "p", ":", "*", "*", " ", "G", "r", "o", "u", "p", " ",
        "$", "{", "a", "r", "g", "s", ".", "g", "r", "o", "u", "p", "I", "d", "}">>,
    <<"-", " ", "*", "*", "S", "t", "a", "t", "u", "s", ":", "*", "*", " ", "U+1F535", " ", "N", "E",
        "W", " ", "(", "N", "o", "t", " ", "y", "e", "t", " ", "a", "c", "t", "i", "v", "a", "t", "e",
        "d", ")", "U+0060", ",">>,
    <<" ", " ", " ", " ", " ", " ", " ", " ", " ", " ", "}", ",">>,
    <<" ", " ", " ", " ", " ", " ", " ", " ", "]", ",">>,
    <<" ", " ", " ", " ", " ", " ", "}", ";">>,
    <<" ", " ", " ", " ", "}", ",">>,
    <<" ", " ", "}", ";">>
  >>

\* the separator of the join that builds fixed_content: the source writes '\\n',
\* a backslash followed by the letter n
JoinSeparator == <<"\\", "n">>

\* before_responses + new_responses + after_responses
SpliceMutant(ls, s, e, new) == Slice(ls, 0, s) \o new \o Slice(ls, e, Len(ls))
Splice(ls, s, e, new) == Slice(ls, 0, s) \o new \o Slice(ls, e + 1, Len(ls))

\* the test of line 29
NotFoundMutant(s, e) == s = None /\ e = None
NotFound(s, e) == s = None \/ e = None

Msg(t, a) == [text |-> t, args |-> a]

fixvars == <<fixed_lines, bracket_count, paren_count, run, scan_of>>
batchvars == <<fs, fs0, file_idx, fixed_count, calls>>
scriptvars == <<file, file0, writes, content, lines, i>>
cleanvars == <<start_line, end_line, brace_count, combined>>

CleanRead ==
    /\ pc = "read"
    /\ file0' = file
    /\ content' = ReadText(file)
    /\ lines' = SplitAt(content', NL)
    /\ start_line' = None
    /\ end_line' = None
    /\ brace_count' = 0
    /\ i' = 0
    /\ pc' = "loop"
    /\ UNCHANGED <<file, writes, printed, combined, fixvars, batchvars>>

\* an iteration whose line holds the marker
CleanMarker ==
    /\ pc = "loop"
    /\ i < Len(lines)
    /\ Contains(At(lines, i), Marker)
    /\ start_line' = i
    /\ brace_count' = 1
    /\ i' = i + 1
    /\ UNCHANGED <<file0, pc, file, writes, printed, content, lines, end_line, combined, fixvars, batchvars>>

\* an iteration before any marker line was seen
CleanSkip ==
    /\ pc = "loop"
    /\ i < Len(lines)
    /\ ~Contains(At(lines, i), Marker)
    /\ start_line = None
    /\ i' = i + 1
    /\ UNCHANGED <<file0, pc, file, writes, printed, content, lines, start_line, end_line,
                   brace_count, combined, fixvars, batchvars>>

\* an iteration after the marker line that leaves the count different from 0
CleanCount ==
    /\ pc = "loop"
    /\ i < Len(lines)
    /\ ~Contains(At(lines, i), Marker)
    /\ start_line # None
    /\ LET c == brace_count + Count(At(lines, i), "{") - Count(At(lines, i), "}")
       IN  /\ c # 0
           /\ brace_count' = c
    /\ i' = i + 1
    /\ UNCHANGED <<file0, pc, file, writes, printed, content, lines, start_line, end_line, combined, fixvars, batchvars>>

\* an iteration after the marker line that brings the count to 0: end_line, break
CleanBreak ==
    /\ pc = "loop"
    /\ i < Len(lines)
    /\ ~Contains(At(lines, i), Marker)
    /\ start_line # None
    /\ LET c == brace_count + Count(At(lines, i), "{") - Count(At(lines, i), "}")
       IN  /\ c = 0
           /\ brace_count' = c
    /\ end_line' = i
    /\ pc' = "check"
    /\ UNCHANGED <<file0, file, writes, printed, content, lines, i, start_line, combined, fixvars, batchvars>>

\* the for loop runs out of lines
CleanExhausted ==
    /\ pc = "loop"
    /\ i = Len(lines)
    /\ pc' = "check"
    /\ UNCHANGED <<file0, file, writes, printed, content, lines, i, start_line, end_line,
                   brace_count, combined, fixvars, batchvars>>

CleanNotFound ==
    /\ pc = "check"
    /\ NotFound(start_line, end_line)
    /\ printed' = Append(printed, Msg("Could not find responses object", <<>>))
    /\ pc' = "done"
    /\ UNCHANGED <<file0, file, writes, content, lines, i, start_line, end_line, brace_count,
                   combined, fixvars, batchvars>>

CleanWrite ==
    /\ pc = "check"
    /\ ~NotFound(start_line, end_line)
    /\ combined' = Splice(lines, start_line, end_line, new_responses)
    /\ file' = Join(JoinSeparator, combined')
    /\ writes' = writes + 1
    /\ printed' = printed \o
         << Msg("Fixing responses section from line {} to {}", <<start_line, end_line>>),
            Msg("Fixed test-utils.ts responses section", <<>>) >>
    /\ pc' = "done"
    /\ UNCHANGED <<file0, content, lines, i, start_line, end_line, brace_count, fixvars, batchvars>>

vars == <<pc, file, file0, writes, printed, content, lines, i, start_line, end_line, brace_count,
          combined, fixvars, batchvars>>

\* Input lines of the documents given to clean_test_utils.py.
MarkerLine == <<" ", " ">> \o Marker
MarkerLineNested == MarkerLine \o <<" ", "a", ":", " ", "{">>
CleanPool ==
    { MarkerLine, MarkerLineNested,
      <<" ", " ", "a", ":", " ", "{">>,
      <<" ", " ", "}", ",", "\r">>,
      <<"}", " ", "x", " ", "{">>,
      <<"}", ";">>,
      <<"x">> }

Streams(pool, n) == UNION {[1..k -> pool] : k \in 1..n}

InitClean ==
    /\ pc = "read"
    /\ file \in {Join(<<NL>>, ls) : ls \in Streams(CleanPool, MaxLines)}
    /\ file0 = <<>>
    /\ writes = 0
    /\ printed = <<>>
    /\ content = <<>>
    /\ lines = <<>>
    /\ i = 0
    /\ start_line = None
    /\ end_line = None
    /\ brace_count = 0
    /\ combined = <<>>
    /\ fixed_lines = <<>>
    /\ bracket_count = 0
    /\ paren_count = 0
    /\ run = 0
    /\ scan_of = <<>>
    /\ fs = <<>>
    /\ fs0 = <<>>
    /\ file_idx = 0
    /\ fixed_count = 0
    /\ calls = <<>>

NextClean ==
    \/ CleanRead
    \/ CleanMarker
    \/ CleanSkip
    \/ CleanCount
    \/ CleanBreak
    \/ CleanExhausted
    \/ CleanNotFound
    \/ CleanWrite

SpecClean == InitClean /\ [][NextClean]_vars

\* ---------------------------------------------------------------- claims on clean_test_utils.py

Net(line) == Count(line, "{") - Count(line, "}")

RECURSIVE SumNet(_, _, _)
\* net brace count of ls[a:b]
SumNet(ls, a, b) == IF a >= b THEN 0 ELSE Net(At(ls, a)) + SumNet(ls, a + 1, b)

MarkerLines(ls) == {k \in 0..(Len(ls) - 1) : Contains(At(ls, k), Marker)}

\* The braces of a document in reading order, each with the index of its line.
RECURSIVE BraceEvents(_, _)
BraceEvents(ls, k) ==
    IF k >= Len(ls) THEN <<>>
    ELSE LET b == SelectSeq(At(ls, k), LAMBDA c : c \in {"{", "}"})
         IN  [j \in 1..Len(b) |-> [ln |-> k, d |-> IF b[j] = "{" THEN 1 ELSE -1]]
             \o BraceEvents(ls, k + 1)

RECURSIVE CharDepth(_, _)
\* brace depth after the first n braces of the document
CharDepth(ev, n) == IF n = 0 THEN 0 ELSE CharDepth(ev, n - 1) + ev[n].d

\* every closing brace closes an open one and none stays open
WellFormed(ls) ==
    LET ev == BraceEvents(ls, 0)
    IN  /\ \A n \in 0..Len(ev) : CharDepth(ev, n) >= 0
        /\ CharDepth(ev, Len(ev)) = 0

\* the position among the document's braces of the '{' that ends the marker text on line s
MarkerBrace(ls, s) ==
    LET line == At(ls, s)
        k    == CHOOSE k \in 0..(Len(line) - Len(Marker)) :
                    /\ Slice(line, k, k + Len(Marker)) = Marker
                    /\ \A j \in 0..(k - 1) : Slice(line, j, j + Len(Marker)) # Marker
        pre  == Slice(line, 0, k + Len(Marker))
    IN  Len(BraceEvents(Slice(ls, 0, s), 0)) + Count(pre, "{") + Count(pre, "}")

\* the marker's brace is opened at depth 0
Outermost(ls, s) == CharDepth(BraceEvents(ls, 0), MarkerBrace(ls, s) - 1) = 0

\* the line of the '}' that closes the marker's brace, in a well-formed document
CloserLine(ls, s) ==
    LET ev == BraceEvents(ls, 0)
        m  == MarkerBrace(ls, s)
        n  == CHOOSE n \in (m + 1)..Len(ev) :
                  /\ CharDepth(ev, n) = CharDepth(ev, m - 1)
                  /\ \A j \in (m + 1)..(n - 1) : CharDepth(ev, j) # CharDepth(ev, m - 1)
    IN  ev[n].ln

ScanOver == pc \in {"check", "done"}

\* C1: for a well-formed document whose one marker line opens an outermost brace, the
\* scan ends with start_line at the marker line, end_line at the line of the matching
\* closing brace, and lines start_line..end_line hold as many '{' as '}'.
C1_ScanFindsMatchingCloser ==
    (ScanOver /\ WellFormed(lines) /\ Cardinality(MarkerLines(lines)) = 1
              /\ \A s \in MarkerLines(lines) : Outermost(lines, s))
    => \A s \in MarkerLines(lines) :
          /\ start_line = s
          /\ end_line = CloserLine(lines, s)
          /\ SumNet(lines, start_line, end_line + 1) = 0

\* The depth the scan assigns to line e: 1 at the last marker line at or before e,
\* plus the net brace count of the lines after that marker line up to e.
LineDepth(ls, e) ==
    LET s == CHOOSE s \in MarkerLines(ls) :
                 s <= e /\ \A t \in MarkerLines(ls) : t <= e => t <= s
    IN  1 + SumNet(ls, s + 1, e + 1)

\* a marker line is found and on no later line the depth is back to 0
Unterminated(ls) ==
    /\ MarkerLines(ls) # {}
    /\ \A e \in 0..(Len(ls) - 1) :
          (e \notin MarkerLines(ls) /\ \E s \in MarkerLines(ls) : s < e)
          => LineDepth(ls, e) # 0

NoMatchReport == <<Msg("Could not find responses object", <<>>)>>

\* C2: when the marker line is found but the depth never returns to 0, the scan
\* yields no end index, the failure is reported and the file is not written.
C2_UnterminatedLeavesFile ==
    (pc = "done" /\ Unterminated(lines))
    => /\ start_line # None
       /\ end_line = None
       /\ printed = NoMatchReport
       /\ writes = 0
       /\ file = file0

C2_Witness ==
    /\ pc = "done"
    /\ Unterminated(lines)
    /\ Len(lines) > start_line + 1
    /\ brace_count > 1

\* C4: the written line sequence is lines[0..start_line-1], the replacement lines,
\* lines[end_line+1..], and its length is
\* len(lines) - (end_line - start_line + 1) + len(new_responses).
C4_SpliceKeepsOutside ==
    (pc = "done" /\ writes = 1)
    => LET n   == Len(new_responses)
           cut == end_line - start_line + 1
       IN  /\ Len(combined) = Len(lines) - cut + n
           /\ \A k \in 0..(start_line - 1) : At(combined, k) = At(lines, k)
           /\ \A k \in 0..(n - 1) : At(combined, start_line + k) = At(new_responses, k)
           /\ \A k \in (end_line + 1)..(Len(lines) - 1) :
                 At(combined, k - cut + n) = At(lines, k)

C4_Witness ==
    /\ pc = "done"
    /\ writes = 1
    /\ start_line > 0
    /\ end_line < Len(lines) - 1

\* C5: the written document is the line sequence joined with the separator the
\* document was split on: splitting it on line breaks gives back the spliced lines,
\* and it equals the source document when the replacement equals the replaced lines.
C5_JoinInvertsSplit ==
    (pc = "done" /\ writes = 1)
    => /\ SplitAt(file, NL) = combined
       /\ (Slice(lines, start_line, end_line + 1) = new_responses => file = file0)

\* C6: the report of a run that found no marker line is made by no run that found
\* one: a missing marker and an unclosed construct end in different results.
C6_NoMatchDistinguished ==
    pc = "done" => ((printed = NoMatchReport /\ writes = 0) <=> MarkerLines(lines) = {})

\* ---------------------------------------------------------------- re

Letters ==
    {"a", "b", "c", "d", "e", "f", "g", "h", "i", "j", "k", "l", "m", "n", "o", "p", "q", "r",
     "s", "t", "u", "v", "w", "x", "y", "z", "A", "B", "C", "D", "E", "F", "G", "H", "I", "J",
     "K", "L", "M", "N", "O", "P", "Q", "R", "S", "T", "U", "V", "W", "X", "Y", "Z"}
Digits == {"0", "1", "2", "3", "4", "5", "6", "7", "8", "9"}

\* \s of a str pattern, and the characters str.strip() removes: the 29 characters c
\* with c.isspace()
Whitespace ==
    {"\t", "\n", "U+000B", "U+000C", "\r", "U+001C", "U+001D", "U+001E", "U+001F", " ",
     "U+0085", "U+00A0", "U+1680", "U+2000", "U+2001", "U+2002", "U+2003", "U+2004", "U+2005", "U+2006",
     "U+2007", "U+2008", "U+2009", "U+200A", "U+2028", "U+2029", "U+202F", "U+205F", "U+3000"}

\* [a-zA-Z0-9_]
AsciiWord == Letters \cup Digits \cup {"_"}

HexDigits == <<"0", "1", "2", "3", "4", "5", "6", "7", "8", "9", "A", "B", "C", "D", "E", "F">>
HexDigit(d) == (CHOOSE k \in 1..16 : HexDigits[k] = d) - 1
RECURSIVE HexValue(_)
HexValue(h) ==
    IF Len(h) = 0 THEN 0
    ELSE 16 * HexValue(SubSeq(h, 1, Len(h) - 1)) + HexDigit(SubSeq(h, Len(h), Len(h)))
\* ord(c) of a character written "U+XXXX"
CodePoint(c) == HexValue(SubSeq(c, 3, Len(c)))

\* The ranges lo..hi of the code points above 127 that \w of a str pattern takes:
\* the characters c with c.isalnum() (the letters and digits of every script).
WordRanges ==
    {<<170, 170>>, <<178, 179>>, <<181, 181>>, <<185, 186>>, <<188, 190>>, <<192, 214>>,
     <<216, 246>>, <<248, 705>>, <<710, 721>>, <<736, 740>>, <<748, 748>>, <<750, 750>>,
     <<880, 884>>, <<886, 887>>, <<890, 893>>, <<895, 895>>, <<902, 902>>, <<904, 906>>,
     <<908, 908>>, <<910, 929>>, <<931, 1013>>, <<1015, 1153>>, <<1162, 1327>>, <<1329, 1366>>,
     <<1369, 1369>>, <<1376, 1416>>, <<1488, 1514>>, <<1519, 1522>>, <<1568, 1610>>,
     <<1632, 1641>>, <<1646, 1647>>, <<1649, 1747>>, <<1749, 1749>>, <<1765, 1766>>,
     <<1774, 1788>>, <<1791, 1791>>, <<1808, 1808>>, <<1810, 1839>>, <<1869, 1957>>,
     <<1969, 1969>>, <<1984, 2026>>, <<2036, 2037>>, <<2042, 2042>>, <<2048, 2069>>,
     <<2074, 2074>>, <<2084, 2084>>, <<2088, 2088>>, <<2112, 2136>>, <<2144, 2154>>,
     <<2160, 2183>>, <<2185, 2190>>, <<2208, 2249>>, <<2308, 2361>>, <<2365, 2365>>,
     <<2384, 2384>>, <<2392, 2401>>, <<2406, 2415>>, <<2417, 2432>>, <<2437, 2444>>,
     <<2447, 2448>>, <<2451, 2472>>, <<2474, 2480>>, <<2482, 2482>>, <<2486, 2489>>,
     <<2493, 2493>>, <<2510, 2510>>, <<2524, 2525>>, <<2527, 2529>>, <<2534, 2545>>,
     <<2548, 2553>>, <<2556, 2556>>, <<2565, 2570>>, <<2575, 2576>>, <<2579, 2600>>,
     <<2602, 2608>>, <<2610, 2611>>, <<2613, 2614>>, <<2616, 2617>>, <<2649, 2652>>,
     <<2654, 2654>>, <<2662, 2671>>, <<2674, 2676>>, <<2693, 2701>>, <<2703, 2705>>,
     <<2707, 2728>>, <<2730, 2736>>, <<2738, 2739>>, <<2741, 2745>>, <<2749, 2749>>,
     <<2768, 2768>>, <<2784, 2785>>, <<2790, 2799>>, <<2809, 2809>>, <<2821, 2828>>,
     <<2831, 2832>>, <<2835, 2856>>, <<2858, 2864>>, <<2866, 2867>>, <<2869, 2873>>,
     <<2877, 2877>>, <<2908, 2909>>, <<2911, 2913>>, <<2918, 2927>>, <<2929, 2935>>,
     <<2947, 2947>>, <<2949, 2954>>, <<2958, 2960>>, <<2962, 2965>>, <<2969, 2970>>,
     <<2972, 2972>>, <<2974, 2975>>, <<2979, 2980>>, <<2984, 2986>>, <<2990, 3001>>,
     <<3024, 3024>>, <<3046, 3058>>, <<3077, 3084>>, <<3086, 3088>>, <<3090, 3112>>,
     <<3114, 3129>>, <<3133, 3133>>, <<3160, 3162>>, <<3165, 3165>>, <<3168, 3169>>,
     <<3174, 3183>>, <<3192, 3198>>, <<3200, 3200>>, <<3205, 3212>>, <<3214, 3216>>,
     <<3218, 3240>>, <<3242, 3251>>, <<3253, 3257>>, <<3261, 3261>>, <<3293, 3294>>,
     <<3296, 3297>>, <<3302, 3311>>, <<3313, 3314>>, <<3332, 3340>>, <<3342, 3344>>,
     <<3346, 3386>>, <<3389, 3389>>, <<3406, 3406>>, <<3412, 3414>>, <<3416, 3425>>,
     <<3430, 3448>>, <<3450, 3455>>, <<3461, 3478>>, <<3482, 3505>>, <<3507, 3515>>,
     <<3517, 3517>>, <<3520, 3526>>, <<3558, 3567>>, <<3585, 3632>>, <<3634, 3635>>,
     <<3648, 3654>>, <<3664, 3673>>, <<3713, 3714>>, <<3716, 3716>>, <<3718, 3722>>,
     <<3724, 3747>>, <<3749, 3749>>, <<3751, 3760>>, <<3762, 3763>>, <<3773, 3773>>,
     <<3776, 3780>>, <<3782, 3782>>, <<3792, 3801>>, <<3804, 3807>>, <<3840, 3840>>,
     <<3872, 3891>>, <<3904, 3911>>, <<3913, 3948>>, <<3976, 3980>>, <<4096, 4138>>,
     <<4159, 4169>>, <<4176, 4181>>, <<4186, 4189>>, <<4193, 4193>>, <<4197, 4198>>,
     <<4206, 4208>>, <<4213, 4225>>, <<4238, 4238>>, <<4240, 4249>>, <<4256, 4293>>,
     <<4295, 4295>>, <<4301, 4301>>, <<4304, 4346>>, <<4348, 4680>>, <<4682, 4685>>,
     <<4688, 4694>>, <<4696, 4696>>, <<4698, 4701>>, <<4704, 4744>>, <<4746, 4749>>,
     <<4752, 4784>>, <<4786, 4789>>, <<4792, 4798>>, <<4800, 4800>>, <<4802, 4805>>,
     <<4808, 4822>>, <<4824, 4880>>, <<4882, 4885>>, <<4888, 4954>>, <<4969, 4988>>,
     <<4992, 5007>>, <<5024, 5109>>, <<5112, 5117>>, <<5121, 5740>>, <<5743, 5759>>,
     <<5761, 5786>>, <<5792, 5866>>, <<5870, 5880>>, <<5888, 5905>>, <<5919, 5937>>,
     <<5952, 5969>>, <<5984, 5996>>, <<5998, 6000>>, <<6016, 6067>>, <<6103, 6103>>,
     <<6108, 6108>>, <<6112, 6121>>, <<6128, 6137>>, <<6160, 6169>>, <<6176, 6264>>,
     <<6272, 6276>>, <<6279, 6312>>, <<6314, 6314>>, <<6320, 6389>>, <<6400, 6430>>,
     <<6470, 6509>>, <<6512, 6516>>, <<6528, 6571>>, <<6576, 6601>>, <<6608, 6618>>,
     <<6656, 6678>>, <<6688, 6740>>, <<6784, 6793>>, <<6800, 6809>>, <<6823, 6823>>,
     <<6917, 6963>>, <<6981, 6988>>, <<6992, 7001>>, <<7043, 7072>>, <<7086, 7141>>,
     <<7168, 7203>>, <<7232, 7241>>, <<7245, 7293>>, <<7296, 7304>>, <<7312, 7354>>,
     <<7357, 7359>>, <<7401, 7404>>, <<7406, 7411>>, <<7413, 7414>>, <<7418, 7418>>,
     <<7424, 7615>>, <<7680, 7957>>, <<7960, 7965>>, <<7968, 8005>>, <<8008, 8013>>,
     <<8016, 8023>>, <<8025, 8025>>, <<8027, 8027>>, <<8029, 8029>>, <<8031, 8061>>,
     <<8064, 8116>>, <<8118, 8124>>, <<8126, 8126>>, <<8130, 8132>>, <<8134, 8140>>,
     <<8144, 8147>>, <<8150, 8155>>, <<8160, 8172>>, <<8178, 8180>>, <<8182, 8188>>,
     <<8304, 8305>>, <<8308, 8313>>, <<8319, 8329>>, <<8336, 8348>>, <<8450, 8450>>,
     <<8455, 8455>>, <<8458, 8467>>, <<8469, 8469>>, <<8473, 8477>>, <<8484, 8484>>,
     <<8486, 8486>>, <<8488, 8488>>, <<8490, 8493>>, <<8495, 8505>>, <<8508, 8511>>,
     <<8517, 8521>>, <<8526, 8526>>, <<8528, 8585>>, <<9312, 9371>>, <<9450, 9471>>,
     <<10102, 10131>>, <<11264, 11492>>, <<11499, 11502>>, <<11506, 11507>>, <<11517, 11517>>,
     <<11520, 11557>>, <<11559, 11559>>, <<11565, 11565>>, <<11568, 11623>>, <<11631, 11631>>,
     <<11648, 11670>>, <<11680, 11686>>, <<11688, 11694>>, <<11696, 11702>>, <<11704, 11710>>,
     <<11712, 11718>>, <<11720, 11726>>, <<11728, 11734>>, <<11736, 11742>>, <<11823, 11823>>,
     <<12293, 12295>>, <<12321, 12329>>, <<12337, 12341>>, <<12344, 12348>>, <<12353, 12438>>,
     <<12445, 12447>>, <<12449, 12538>>, <<12540, 12543>>, <<12549, 12591>>, <<12593, 12686>>,
     <<12690, 12693>>, <<12704, 12735>>, <<12784, 12799>>, <<12832, 12841>>, <<12872, 12879>>,
     <<12881, 12895>>, <<12928, 12937>>, <<12977, 12991>>, <<13312, 19903>>, <<19968, 42124>>,
     <<42192, 42237>>, <<42240, 42508>>, <<42512, 42539>>, <<42560, 42606>>, <<42623, 42653>>,
     <<42656, 42735>>, <<42775, 42783>>, <<42786, 42888>>, <<42891, 42954>>, <<42960, 42961>>,
     <<42963, 42963>>, <<42965, 42969>>, <<42994, 43009>>, <<43011, 43013>>, <<43015, 43018>>,
     <<43020, 43042>>, <<43056, 43061>>, <<43072, 43123>>, <<43138, 43187>>, <<43216, 43225>>,
     <<43250, 43255>>, <<43259, 43259>>, <<43261, 43262>>, <<43264, 43301>>, <<43312, 43334>>,
     <<43360, 43388>>, <<43396, 43442>>, <<43471, 43481>>, <<43488, 43492>>, <<43494, 43518>>,
     <<43520, 43560>>, <<43584, 43586>>, <<43588, 43595>>, <<43600, 43609>>, <<43616, 43638>>,
     <<43642, 43642>>, <<43646, 43695>>, <<43697, 43697>>, <<43701, 43702>>, <<43705, 43709>>,
     <<43712, 43712>>, <<43714, 43714>>, <<43739, 43741>>, <<43744, 43754>>, <<43762, 43764>>,
     <<43777, 43782>>, <<43785, 43790>>, <<43793, 43798>>, <<43808, 43814>>, <<43816, 43822>>,
     <<43824, 43866>>, <<43868, 43881>>, <<43888, 44002>>, <<44016, 44025>>, <<44032, 55203>>,
     <<55216, 55238>>, <<55243, 55291>>, <<63744, 64109>>, <<64112, 64217>>, <<64256, 64262>>,
     <<64275, 64279>>, <<64285, 64285>>, <<64287, 64296>>, <<64298, 64310>>, <<64312, 64316>>,
     <<64318, 64318>>, <<64320, 64321>>, <<64323, 64324>>, <<64326, 64433>>, <<64467, 64829>>,
     <<64848, 64911>>, <<64914, 64967>>, <<65008, 65019>>, <<65136, 65140>>, <<65142, 65276>>,
     <<65296, 65305>>, <<65313, 65338>>, <<65345, 65370>>, <<65382, 65470>>, <<65474, 65479>>,
     <<65482, 65487>>, <<65490, 65495>>, <<65498, 65500>>, <<65536, 65547>>, <<65549, 65574>>,
     <<65576, 65594>>, <<65596, 65597>>, <<65599, 65613>>, <<65616, 65629>>, <<65664, 65786>>,
     <<65799, 65843>>, <<65856, 65912>>, <<65930, 65931>>, <<66176, 66204>>, <<66208, 66256>>,
     <<66273, 66299>>, <<66304, 66339>>, <<66349, 66378>>, <<66384, 66421>>, <<66432, 66461>>,
     <<66464, 66499>>, <<66504, 66511>>, <<66513, 66517>>, <<66560, 66717>>, <<66720, 66729>>,
     <<66736, 66771>>, <<66776, 66811>>, <<66816, 66855>>, <<66864, 66915>>, <<66928, 66938>>,
     <<66940, 66954>>, <<66956, 66962>>, <<66964, 66965>>, <<66967, 66977>>, <<66979, 66993>>,
     <<66995, 67001>>, <<67003, 67004>>, <<67072, 67382>>, <<67392, 67413>>, <<67424, 67431>>,
     <<67456, 67461>>, <<67463, 67504>>, <<67506, 67514>>, <<67584, 67589>>, <<67592, 67592>>,
     <<67594, 67637>>, <<67639, 67640>>, <<67644, 67644>>, <<67647, 67669>>, <<67672, 67702>>,
     <<67705, 67742>>, <<67751, 67759>>, <<67808, 67826>>, <<67828, 67829>>, <<67835, 67867>>,
     <<67872, 67897>>, <<67968, 68023>>, <<68028, 68047>>, <<68050, 68096>>, <<68112, 68115>>,
     <<68117, 68119>>, <<68121, 68149>>, <<68160, 68168>>, <<68192, 68222>>, <<68224, 68255>>,
     <<68288, 68295>>, <<68297, 68324>>, <<68331, 68335>>, <<68352, 68405>>, <<68416, 68437>>,
     <<68440, 68466>>, <<68472, 68497>>, <<68521, 68527>>, <<68608, 68680>>, <<68736, 68786>>,
     <<68800, 68850>>, <<68858, 68899>>, <<68912, 68921>>, <<69216, 69246>>, <<69248, 69289>>,
     <<69296, 69297>>, <<69376, 69415>>, <<69424, 69445>>, <<69457, 69460>>, <<69488, 69505>>,
     <<69552, 69579>>, <<69600, 69622>>, <<69635, 69687>>, <<69714, 69743>>, <<69745, 69746>>,
     <<69749, 69749>>, <<69763, 69807>>, <<69840, 69864>>, <<69872, 69881>>, <<69891, 69926>>,
     <<69942, 69951>>, <<69956, 69956>>, <<69959, 69959>>, <<69968, 70002>>, <<70006, 70006>>,
     <<70019, 70066>>, <<70081, 70084>>, <<70096, 70106>>, <<70108, 70108>>, <<70113, 70132>>,
     <<70144, 70161>>, <<70163, 70187>>, <<70272, 70278>>, <<70280, 70280>>, <<70282, 70285>>,
     <<70287, 70301>>, <<70303, 70312>>, <<70320, 70366>>, <<70384, 70393>>, <<70405, 70412>>,
     <<70415, 70416>>, <<70419, 70440>>, <<70442, 70448>>, <<70450, 70451>>, <<70453, 70457>>,
     <<70461, 70461>>, <<70480, 70480>>, <<70493, 70497>>, <<70656, 70708>>, <<70727, 70730>>,
     <<70736, 70745>>, <<70751, 70753>>, <<70784, 70831>>, <<70852, 70853>>, <<70855, 70855>>,
     <<70864, 70873>>, <<71040, 71086>>, <<71128, 71131>>, <<71168, 71215>>, <<71236, 71236>>,
     <<71248, 71257>>, <<71296, 71338>>, <<71352, 71352>>, <<71360, 71369>>, <<71424, 71450>>,
     <<71472, 71483>>, <<71488, 71494>>, <<71680, 71723>>, <<71840, 71922>>, <<71935, 71942>>,
     <<71945, 71945>>, <<71948, 71955>>, <<71957, 71958>>, <<71960, 71983>>, <<71999, 71999>>,
     <<72001, 72001>>, <<72016, 72025>>, <<72096, 72103>>, <<72106, 72144>>, <<72161, 72161>>,
     <<72163, 72163>>, <<72192, 72192>>, <<72203, 72242>>, <<72250, 72250>>, <<72272, 72272>>,
     <<72284, 72329>>, <<72349, 72349>>, <<72368, 72440>>, <<72704, 72712>>, <<72714, 72750>>,
     <<72768, 72768>>, <<72784, 72812>>, <<72818, 72847>>, <<72960, 72966>>, <<72968, 72969>>,
     <<72971, 73008>>, <<73030, 73030>>, <<73040, 73049>>, <<73056, 73061>>, <<73063, 73064>>,
     <<73066, 73097>>, <<73112, 73112>>, <<73120, 73129>>, <<73440, 73458>>, <<73648, 73648>>,
     <<73664, 73684>>, <<73728, 74649>>, <<74752, 74862>>, <<74880, 75075>>, <<77712, 77808>>,
     <<77824, 78894>>, <<82944, 83526>>, <<92160, 92728>>, <<92736, 92766>>, <<92768, 92777>>,
     <<92784, 92862>>, <<92864, 92873>>, <<92880, 92909>>, <<92928, 92975>>, <<92992, 92995>>,
     <<93008, 93017>>, <<93019, 93025>>, <<93027, 93047>>, <<93053, 93071>>, <<93760, 93846>>,
     <<93952, 94026>>, <<94032, 94032>>, <<94099, 94111>>, <<94176, 94177>>, <<94179, 94179>>,
     <<94208, 100343>>, <<100352, 101589>>, <<101632, 101640>>, <<110576, 110579>>,
     <<110581, 110587>>, <<110589, 110590>>, <<110592, 110882>>, <<110928, 110930>>,
     <<110948, 110951>>, <<110960, 111355>>, <<113664, 113770>>, <<113776, 113788>>,
     <<113792, 113800>>, <<113808, 113817>>, <<119520, 119539>>, <<119648, 119672>>,
     <<119808, 119892>>, <<119894, 119964>>, <<119966, 119967>>, <<119970, 119970>>,
     <<119973, 119974>>, <<119977, 119980>>, <<119982, 119993>>, <<119995, 119995>>,
     <<119997, 120003>>, <<120005, 120069>>, <<120071, 120074>>, <<120077, 120084>>,
     <<120086, 120092>>, <<120094, 120121>>, <<120123, 120126>>, <<120128, 120132>>,
     <<120134, 120134>>, <<120138, 120144>>, <<120146, 120485>>, <<120488, 120512>>,
     <<120514, 120538>>, <<120540, 120570>>, <<120572, 120596>>, <<120598, 120628>>,
     <<120630, 120654>>, <<120656, 120686>>, <<120688, 120712>>, <<120714, 120744>>,
     <<120746, 120770>>, <<120772, 120779>>, <<120782, 120831>>, <<122624, 122654>>,
     <<123136, 123180>>, <<123191, 123197>>, <<123200, 123209>>, <<123214, 123214>>,
     <<123536, 123565>>, <<123584, 123627>>, <<123632, 123641>>, <<124896, 124902>>,
     <<124904, 124907>>, <<124909, 124910>>, <<124912, 124926>>, <<124928, 125124>>,
     <<125127, 125135>>, <<125184, 125251>>, <<125259, 125259>>, <<125264, 125273>>,
     <<126065, 126123>>, <<126125, 126127>>, <<126129, 126132>>, <<126209, 126253>>,
     <<126255, 126269>>, <<126464, 126467>>, <<126469, 126495>>, <<126497, 126498>>,
     <<126500, 126500>>, <<126503, 126503>>, <<126505, 126514>>, <<126516, 126519>>,
     <<126521, 126521>>, <<126523, 126523>>, <<126530, 126530>>, <<126535, 126535>>,
     <<126537, 126537>>, <<126539, 126539>>, <<126541, 126543>>, <<126545, 126546>>,
     <<126548, 126548>>, <<126551, 126551>>, <<126553, 126553>>, <<126555, 126555>>,
     <<126557, 126557>>, <<126559, 126559>>, <<126561, 126562>>, <<126564, 126564>>,
     <<126567, 126570>>, <<126572, 126578>>, <<126580, 126583>>, <<126585, 126588>>,
     <<126590, 126590>>, <<126592, 126601>>, <<126603, 126619>>, <<126625, 126627>>,
     <<126629, 126633>>, <<126635, 126651>>, <<127232, 127244>>, <<130032, 130041>>,
     <<131072, 173791>>, <<173824, 177976>>, <<177984, 178205>>, <<178208, 183969>>,
     <<183984, 191456>>, <<194560, 195101>>, <<196608, 201546>>}

\* \w of a str pattern: [a-zA-Z0-9_] and every other letter or digit
IsWordChar(c) ==
    IF Len(c) = 1 THEN c \in AsciiWord
    ELSE LET n == CodePoint(c) IN \E r \in WordRanges : r[1] <= n /\ n <= r[2]

\* A pattern is a sequence of items.  An item is a character class (the characters
\* of set, and those of \w when word, or all others when neg) taken once, or repeated
\* greedily (many) at least min times; or a literal text; or the start "(" or end ")" of group g; or an anchor.
Cls(S) == [k |-> "class", set |-> S, neg |-> FALSE, min |-> 1, many |-> FALSE, word |-> FALSE, g |-> 0, lit |-> <<>>]
NotCls(S) == [k |-> "class", set |-> S, neg |-> TRUE, min |-> 1, many |-> FALSE, word |-> FALSE, g |-> 0, lit |-> <<>>]
Star(it) == [it EXCEPT !.min = 0, !.many = TRUE]
Plus(it) == [it EXCEPT !.min = 1, !.many = TRUE]
Open(n) == [k |-> "(", set |-> {}, neg |-> FALSE, min |-> 0, many |-> FALSE, word |-> FALSE, g |-> n, lit |-> <<>>]
Close(n) == [k |-> ")", set |-> {}, neg |-> FALSE, min |-> 0, many |-> FALSE, word |-> FALSE, g |-> n, lit |-> <<>>]
\* ^ without re.MULTILINE
Bol == [k |-> "^", set |-> {}, neg |-> FALSE, min |-> 0, many |-> FALSE, word |-> FALSE, g |-> 0, lit |-> <<>>]
\* $ with re.MULTILINE
Eol == [k |-> "$", set |-> {}, neg |-> FALSE, min |-> 0, many |-> FALSE, word |-> FALSE, g |-> 0, lit |-> <<>>]
\* a literal text
Lit(text) ==
    <<[k |-> "lit", set |-> {}, neg |-> FALSE, min |-> 0, many |-> FALSE, word |-> FALSE, g |-> 0, lit |-> text]>>

\* \w
Word == [Cls({}) EXCEPT !.word = TRUE]

InClass(it, c) == ((c \in it.set) \/ (it.word /\ IsWordChar(c))) # it.neg

NoMatch == [ok |-> FALSE, end |-> 0, caps |-> <<>>]

\* how many characters of text from offset pos on are in the class of it, at most lim
RECURSIVE RunLength(_, _, _, _)
RunLength(it, text, pos, lim) ==
    IF lim = 0 \/ pos >= Len(text) \/ ~InClass(it, At(text, pos)) THEN 0
    ELSE 1 + RunLength(it, text, pos + 1, lim - 1)

\* The match of pat[p..] at offset pos that the backtracking matcher finds first: a
\* repeated class takes as many characters as it can and gives them back one by one
\* until the rest of the pattern matches.  caps[g] is the span of group g.
RECURSIVE MatchFrom(_, _, _, _, _)
RECURSIVE MatchRun(_, _, _, _, _, _)
MatchRun(pat, p, text, pos, n, caps) ==
    IF n < pat[p].min THEN NoMatch
    ELSE LET r == MatchFrom(pat, p + 1, text, pos + n, caps)
         IN  IF r.ok THEN r ELSE MatchRun(pat, p, text, pos, n - 1, caps)
MatchFrom(pat, p, text, pos, caps) ==
    IF p > Len(pat) THEN [ok |-> TRUE, end |-> pos, caps |-> caps]
    ELSE LET it == pat[p] IN
         CASE it.k = "class" ->
                MatchRun(pat, p, text, pos,
                         RunLength(it, text, pos, IF it.many THEN Len(text) ELSE 1), caps)
           [] it.k = "lit" ->
                IF Slice(text, pos, pos + Len(it.lit)) = it.lit
                THEN MatchFrom(pat, p + 1, text, pos + Len(it.lit), caps) ELSE NoMatch
           [] it.k = "(" ->
                MatchFrom(pat, p + 1, text, pos,
                          IF it.g \in DOMAIN caps THEN [caps EXCEPT ![it.g] = <<pos, pos>>]
                          ELSE caps)
           [] it.k = ")" ->
                MatchFrom(pat, p + 1, text, pos,
                          IF it.g \in DOMAIN caps
                          THEN [caps EXCEPT ![it.g] = <<caps[it.g][1], pos>>]
                          ELSE caps)
           [] it.k = "^" ->
                IF pos = 0 THEN MatchFrom(pat, p + 1, text, pos, caps) ELSE NoMatch
           [] it.k = "$" ->
                IF pos = Len(text) \/ At(text, pos) = NL
                THEN MatchFrom(pat, p + 1, text, pos, caps) ELSE NoMatch

Groups(pat) == Cardinality({p \in 1..Len(pat) : pat[p].k = "("})

\* re.match(pat, text)
ReMatch(pat, text) ==
    MatchFrom(pat, 1, text, 0, [g \in 1..Groups(pat) |-> <<0, 0>>]).ok

\* ---------------------------------------------------------------- fix_test_utils.py

\* r"^\s*'[^']+'\s*:\s*\([^)]*\)\s*=>\s*\(\{"
OpenerPattern ==
    <<Bol, Star(Cls(Whitespace)), Cls({"'"}), Plus(NotCls({"'"})), Cls({"'"}),
      Star(Cls(Whitespace)), Cls({":"}), Star(Cls(Whitespace)), Cls({"("}),
      Star(NotCls({")"})), Cls({")"}), Star(Cls(Whitespace)), Cls({"="}), Cls({">"}),
      Star(Cls(Whitespace)), Cls({"("}), Cls({"{"})>>

IsOpenerMutant(line) == Contains(line, <<"(", "{">>)
IsOpener(line) == ReMatch(OpenerPattern, line)

\* line.strip()
RECURSIVE LStrip(_)
LStrip(s) == IF Len(s) > 0 /\ s[1] \in Whitespace THEN LStrip(Tail(s)) ELSE s
RECURSIVE RStrip(_)
RStrip(s) ==
    IF Len(s) > 0 /\ s[Len(s)] \in Whitespace THEN RStrip(SubSeq(s, 1, Len(s) - 1)) ELSE s
Strip(s) == LStrip(RStrip(s))

\* s.replace(old, new), old not empty
RECURSIVE Replace(_, _, _)
Replace(s, old, new) ==
    IF Len(s) < Len(old) THEN s
    ELSE IF SubSeq(s, 1, Len(old)) = old
         THEN new \o Replace(SubSeq(s, Len(old) + 1, Len(s)), old, new)
         ELSE <<s[1]>> \o Replace(Tail(s), old, new)

Closer == <<"}", ",">>
FixedCloser == <<"}", ")", ",">>

\* the test of line 42 on the line just counted
IsClosingMutant(count, line) == count = 0 /\ Contains(line, Closer)
IsClosing(count, line) == count = 0 /\ Strip(line) = Closer

\* the text appended for a closing line, line 44
Rewrite(line) == Replace(line, Closer, FixedCloser)

\* the condition of the inner while, line 35
InnerContinues ==
    i < Len(lines) /\ (bracket_count > 0 \/ paren_count > 0)

FixRead ==
    /\ pc = "read"
    /\ file0' = file
    /\ content' = ReadText(file)
    /\ lines' = SplitAt(content', NL)
    /\ fixed_lines' = <<>>
    /\ i' = 0
    /\ run' = run + 1
    /\ scan_of' = [k \in 1..Len(lines') |-> None]
    /\ pc' = "outer"
    /\ UNCHANGED <<file, writes, printed, bracket_count, paren_count, cleanvars, batchvars>>

\* an iteration of the outer loop at an opener line
FixOpener ==
    /\ pc = "outer"
    /\ i < Len(lines)
    /\ IsOpener(At(lines, i))
    /\ fixed_lines' = Append(fixed_lines, At(lines, i))
    /\ i' = i + 1
    /\ bracket_count' = 1
    /\ paren_count' = 1
    /\ pc' = "inner"
    /\ UNCHANGED <<file0, file, writes, printed, content, lines, run, scan_of, cleanvars, batchvars>>

\* an iteration of the outer loop at any other line
FixPlain ==
    /\ pc = "outer"
    /\ i < Len(lines)
    /\ ~IsOpener(At(lines, i))
    /\ fixed_lines' = Append(fixed_lines, At(lines, i))
    /\ i' = i + 1
    /\ UNCHANGED <<file0, pc, file, writes, printed, content, lines, bracket_count, paren_count,
                   run, scan_of, cleanvars, batchvars>>

\* the opener line of the scan in progress: the last line the outer loop consumed
ScanStart ==
    CHOOSE s \in 0..(i - 1) :
        /\ At(scan_of, s) = None
        /\ \A k \in (s + 1)..(i - 1) : At(scan_of, k) # None

\* an iteration of the inner loop at the closing line: rewrite it and break
FixInnerRewrite ==
    /\ pc = "inner"
    /\ InnerContinues
    /\ LET c == bracket_count + Count(At(lines, i), "{") - Count(At(lines, i), "}")
       IN  /\ IsClosing(c, At(lines, i))
           /\ bracket_count' = c
    /\ fixed_lines' = Append(fixed_lines, Rewrite(At(lines, i)))
    /\ scan_of' = [scan_of EXCEPT ![i + 1] = ScanStart]
    /\ i' = i + 1
    /\ pc' = "outer"
    /\ UNCHANGED <<file0, file, writes, printed, content, lines, paren_count, run, cleanvars, batchvars>>

\* an iteration of the inner loop at any other line
FixInnerKeep ==
    /\ pc = "inner"
    /\ InnerContinues
    /\ LET c == bracket_count + Count(At(lines, i), "{") - Count(At(lines, i), "}")
       IN  /\ ~IsClosing(c, At(lines, i))
           /\ bracket_count' = c
    /\ fixed_lines' = Append(fixed_lines, At(lines, i))
    /\ scan_of' = [scan_of EXCEPT ![i + 1] = ScanStart]
    /\ i' = i + 1
    /\ UNCHANGED <<file0, pc, file, writes, printed, content, lines, paren_count, run, cleanvars, batchvars>>

\* the inner loop ends because its condition is false
FixInnerExit ==
    /\ pc = "inner"
    /\ ~InnerContinues
    /\ pc' = "outer"
    /\ UNCHANGED <<file0, file, writes, printed, content, lines, i, fixed_lines, bracket_count,
                   paren_count, run, scan_of, cleanvars, batchvars>>

\* the outer loop is over: write the file
FixWrite ==
    /\ pc = "outer"
    /\ i >= Len(lines)
    /\ file' = Join(<<NL>>, fixed_lines)
    /\ writes' = writes + 1
    /\ printed' = Append(printed, Msg("Fixed test-utils.ts", <<>>))
    /\ pc' = "done"
    /\ UNCHANGED <<file0, content, lines, i, fixed_lines, bracket_count, paren_count, run, scan_of,
                   cleanvars, batchvars>>

\* the script is started again on the file it wrote
FixRerun ==
    /\ pc = "done"
    /\ run < MaxRuns
    /\ pc' = "read"
    /\ UNCHANGED <<file0, file, writes, printed, content, lines, i, fixed_lines, bracket_count,
                   paren_count, run, scan_of, cleanvars, batchvars>>

\* Input lines of the documents given to fix_test_utils.py.
FixPool ==
    { <<"'", "f", "o", "o", "'", ":", " ", "(", "a", "r", "g", "s", ")", " ", "=", ">", " ",
        "(", "{">>,
      <<"f", "o", "o", ":", " ", "(", "a", "r", "g", "s", ")", " ", "=", ">", " ", "(", "{">>,
      <<" ", " ", "a", ":", " ", "1", ",">>,
      <<"}", ",">>,
      <<" ", "U+00A0", "}", ",", "\r">>,
      <<"}", ")", ",">>,
      <<"{">>,
      <<"}", ",", " ", "x">> }

InitFix ==
    /\ pc = "read"
    /\ file \in {Join(<<NL>>, ls) : ls \in Streams(FixPool, MaxLines)}
    /\ file0 = <<>>
    /\ writes = 0
    /\ printed = <<>>
    /\ content = <<>>
    /\ lines = <<>>
    /\ i = 0
    /\ start_line = None
    /\ end_line = None
    /\ brace_count = 0
    /\ combined = <<>>
    /\ fixed_lines = <<>>
    /\ bracket_count = 0
    /\ paren_count = 0
    /\ run = 0
    /\ scan_of = <<>>
    /\ fs = <<>>
    /\ fs0 = <<>>
    /\ file_idx = 0
    /\ fixed_count = 0
    /\ calls = <<>>

NextFix ==
    \/ FixRead
    \/ FixOpener
    \/ FixPlain
    \/ FixInnerRewrite
    \/ FixInnerKeep
    \/ FixInnerExit
    \/ FixWrite
    \/ FixRerun

SpecFix == InitFix /\ [][NextFix]_vars

\* ---------------------------------------------------------------- claims on fix_test_utils.py

C3_Lines ==
    << <<"f", "o", "o", ":", " ", "(", "a", "r", "g", "s", ")", " ", "=", ">", " ", "(", "{">>,
       <<" ", " ", "a", ":", " ", "1", ",">>,
       <<"}", ",">> >>

\* the same lines with the name quoted, as the opener test requires
C3_QuotedLines ==
    << <<"'", "f", "o", "o", "'", ":", " ", "(", "a", "r", "g", "s", ")", " ", "=", ">", " ",
         "(", "{">>,
       <<" ", " ", "a", ":", " ", "1", ",">>,
       <<"}", ",">> >>

\* the scan begun at line 0 ended by the break at line 2
ScanReturns2 ==
    /\ At(scan_of, 1) = 0
    /\ At(scan_of, 2) = 0
    /\ At(fixed_lines, 2) = FixedCloser

\* C3 as stated: on the lines foo: (args) => ({ / a: 1, / }, the scan started at
\* line 0 returns line 2, where the parenthesis count is back to 0.
C3_ParenCountReturns2 ==
    (pc = "done" /\ lines = C3_Lines) => (ScanReturns2 /\ paren_count = 0)

\* C3 amended: with the name quoted the scan started at line 0 ends at line 2, where
\* the brace count is back to 0, and paren_count is still 1; on the unquoted lines no
\* scan starts and every line is emitted as it is.
C3_BraceCountReturns2 ==
    /\ (pc = "done" /\ lines = C3_QuotedLines)
       => (ScanReturns2 /\ bracket_count = 0 /\ paren_count = 1)
    /\ (pc = "done" /\ lines = C3_Lines)
       => (fixed_lines = lines /\ \A k \in 0..2 : At(scan_of, k) = None)

C3_Witness ==
    /\ pc = "done"
    /\ lines = C3_QuotedLines
    /\ run = 1
    /\ ScanReturns2

\* C8: a second run of the pass over the file the first run wrote changes no line.
C8_SecondPassChangesNothing ==
    (pc = "done" /\ run >= 2) => file = file0

\* the depth at line j of the scan begun at opener line s
ScanDepth(ls, s, j) == 1 + SumNet(ls, s + 1, j + 1)

\* C9: a scan ends at the first line after its opener on which the depth is 0: it
\* consumes no line after such a line, its depth never goes below 0, and an opener
\* line after the end of a scan starts a scan of its own.
C9_ScanStopsAtDepthZero ==
    /\ pc = "inner" => bracket_count >= 0
    /\ \A k \in 0..(Len(scan_of) - 1) :
          At(scan_of, k) # None
          => \A j \in (At(scan_of, k) + 1)..(k - 1) : ScanDepth(lines, At(scan_of, k), j) # 0
    /\ \A k \in 0..(Len(scan_of) - 1) :
          (At(scan_of, k) # None /\ IsOpener(At(lines, k)))
          => \A j \in (At(scan_of, k) + 1)..(k - 1) : ScanDepth(lines, At(scan_of, k), j) > 0

\* what is left of the pass: twice the lines not yet consumed, plus one inside a scan
Remaining == 2 * (Len(lines) - i) + (IF pc = "inner" THEN 1 ELSE 0)

InPass == pc \in {"outer", "inner"}

C10_Emitted ==
    /\ pc \in {"outer", "inner", "done"}
       => /\ Len(fixed_lines) = i
          /\ i <= Len(lines)
          /\ \A k \in 0..(i - 1) :
                At(fixed_lines, k) # At(lines, k)
                => (Strip(At(lines, k)) = Closer /\ At(scan_of, k) # None)
    /\ pc = "done"
       => /\ Len(fixed_lines) = Len(lines)
          /\ file = Join(<<NL>>, fixed_lines)

C10_Progress ==
    InPass => /\ Remaining >= 0
              /\ pc' = "done" => Remaining = 0
              /\ InPass' => Remaining' < Remaining

\* C10: the pass ends (every step of its loops brings it nearer to the write, which
\* comes when no line is left) having emitted one output line per input line, in
\* order, and output line k differs from input line k only if that line, stripped,
\* is '},' and was consumed by a scan; opener lines and lines outside a scan are
\* emitted as they are.
C10_OneLineOutPerLineIn == []C10_Emitted /\ [][C10_Progress]_vars

C10_Witness ==
    /\ pc = "done"
    /\ Len(lines) = 4
    /\ At(fixed_lines, 2) # At(lines, 2)
    /\ At(fixed_lines, 3) = At(lines, 3)
    /\ Strip(At(lines, 3)) = Closer

\* ---------------------------------------------------------------- fix_remaining_syntax.py

\* A replacement template is a sequence of pieces: the text lit, or group g when g > 0.
Text(t) == [g |-> 0, lit |-> t]
Group(n) == [g |-> n, lit |-> <<>>]

RECURSIVE Expand(_, _, _)
\* match.expand(repl)
Expand(repl, text, caps) ==
    IF Len(repl) = 0 THEN <<>>
    ELSE (IF repl[1].g = 0 THEN repl[1].lit
          ELSE Slice(text, caps[repl[1].g][1], caps[repl[1].g][2]))
         \o Expand(Tail(repl), text, caps)

\* re.sub(pat, repl, text) from offset pos on: the leftmost match is replaced and the
\* search goes on where it ended (no pattern here matches the empty text); caps0 is
\* the group table before a match
RECURSIVE SubFrom(_, _, _, _, _)
SubFrom(pat, repl, text, pos, caps0) ==
    LET starts == {q \in pos..(Len(text) - 1) :
                      LET m == MatchFrom(pat, 1, text, q, caps0) IN m.ok /\ m.end > q}
    IN  IF starts = {} THEN Slice(text, pos, Len(text))
        ELSE LET q == CHOOSE q \in starts : \A r \in starts : q <= r
                 m == MatchFrom(pat, 1, text, q, caps0)
             IN  Slice(text, pos, q) \o Expand(repl, text, m.caps)
                 \o SubFrom(pat, repl, text, m.end, caps0)

ReSub(pat, repl, text) ==
    SubFrom(pat, repl, text, 0, [g \in 1..Groups(pat) |-> <<0, 0>>])

Ws == Star(Cls(Whitespace))
Ch(c) == Cls({c})
\* [a-zA-Z_][a-zA-Z0-9_]*
Ident == <<Cls(Letters \cup {"_"}), Star(Cls(AsciiWord))>>
\* \([^)]*\)\s*=>\s*
ArrowHead ==
    <<Ch("("), Star(NotCls({")"})), Ch(")"), Ws, Ch("="), Ch(">"), Ws>>

\* r'JSON\.stringify\(([^)]+),\s*$' (re.MULTILINE) -> r'JSON.stringify(\1),'
JsonStringify == <<"J", "S", "O", "N", ".", "s", "t", "r", "i", "n", "g", "i", "f", "y", "(">>
Rule1 ==
    [pat  |-> Lit(JsonStringify)
              \o <<Open(1), Plus(NotCls({")"})), Close(1), Ch(","), Ws, Eol>>,
     repl |-> <<Text(JsonStringify), Group(1), Text(<<")", ",">>)>>]

\* r'(\s+[a-zA-Z_][a-zA-Z0-9_]*:\s*\([^)]*\)\s*=>\s*\{[^}]*\}),\s*$' (re.MULTILINE)
\* -> r'\1),'
Rule2 ==
    [pat  |-> <<Open(1), Plus(Cls(Whitespace))>> \o Ident \o <<Ch(":"), Ws>> \o ArrowHead
              \o <<Ch("{"), Star(NotCls({"}"})), Ch("}"), Close(1), Ch(","), Ws, Eol>>,
     repl |-> <<Group(1), Text(<<")", ",">>)>>]

\* r'(\s+[a-zA-Z_][a-zA-Z0-9_]*:\s*\([^)]*\)\s*=>\s*\([^)]*\{[^}]*\}),\s*$'
\* (re.MULTILINE) -> r'\1)),'
Rule3 ==
    [pat  |-> <<Open(1), Plus(Cls(Whitespace))>> \o Ident \o <<Ch(":"), Ws>> \o ArrowHead
              \o <<Ch("("), Star(NotCls({")"})), Ch("{"), Star(NotCls({"}"})), Ch("}"),
                   Close(1), Ch(","), Ws, Eol>>,
     repl |-> <<Group(1), Text(<<")", ")", ",">>)>>]

\* r'logger\._error(["\'])\s*,\s*\{\s*_error\.message\s*\}'
\* -> r'logger.error(`Error: ${_error.message}`)'
Rule4 ==
    [pat  |-> Lit(<<"l", "o", "g", "g", "e", "r", ".", "_", "e", "r", "r", "o", "r">>)
              \o <<Open(1), Cls({"\"", "'"}), Close(1), Ws, Ch(","), Ws, Ch("{"), Ws>>
              \o Lit(<<"_", "e", "r", "r", "o", "r", ".", "m", "e", "s", "s", "a", "g", "e">>)
              \o <<Ws, Ch("}")>>,
     repl |-> <<Text(
        <<"l", "o", "g", "g", "e", "r", ".", "e", "r", "r", "o", "r", "(", "U+0060", "E", "r",
          "r", "o", "r", ":", " ", "$", "{", "_", "e", "r", "r", "o", "r", ".", "m", "e", "s",
          "s", "a", "g", "e", "}", "U+0060", ")">>)>>]

\* r'(\w+:\s*[^,}\n]+)\s*\n\s*(\w+:)' -> r'\1,\n    \2'
Rule5 ==
    [pat  |-> <<Open(1), Plus(Word), Ch(":"), Ws, Plus(NotCls({",", "}", NL})),
                Close(1), Ws, Ch(NL), Ws, Open(2), Plus(Word), Ch(":"), Close(2)>>,
     repl |-> <<Group(1), Text(<<",", NL, " ", " ", " ", " ">>), Group(2)>>]

\* r'catch\s*\(\s*error\s*\)' -> r'catch (_error)'
Rule6 ==
    [pat  |-> Lit(<<"c", "a", "t", "c", "h">>) \o <<Ws, Ch("("), Ws>>
              \o Lit(<<"e", "r", "r", "o", "r">>) \o <<Ws, Ch(")")>>,
     repl |-> <<Text(<<"c", "a", "t", "c", "h", " ", "(", "_", "e", "r", "r", "o", "r", ")">>)>>]

\* r'(\w+:\s*\([^)]*\)\s*=>\s*\([^}]*)\},\s*$' (re.MULTILINE) -> r'\1}),'
Rule7 ==
    [pat  |-> <<Open(1), Plus(Word), Ch(":"), Ws>> \o ArrowHead
              \o <<Ch("("), Star(NotCls({"}"})), Close(1), Ch("}"), Ch(","), Ws, Eol>>,
     repl |-> <<Group(1), Text(<<"}", ")", ",">>)>>]

\* the substitutions of lines 18 to 36, in order
Rules == <<Rule1, Rule2, Rule3, Rule4, Rule5, Rule6, Rule7>>

\* content = re.sub(pat, repl, content) for the rules from the n-th on, in order
RECURSIVE ApplyFrom(_, _, _)
ApplyFrom(rules, text, n) ==
    IF n > Len(rules) THEN text
    ELSE ApplyFrom(rules, ReSub(rules[n].pat, rules[n].repl, text), n + 1)

ApplyRules(text) == ApplyFrom(Rules, text, 1)

\* the test of line 38
ChangedMutant(new, original) == TRUE
Changed(new, original) == new # original

files_to_fix ==
    << "src/testing/test-utils.ts",
       "src/tools/analysis/cx-impact-analyzer.ts",
       "src/tools/analysis/fix-strategy.ts",
       "src/tools/analysis/intelligent-bug-analyzer-broken.ts",
       "src/utils/response-parsing.ts" >>

Paths == {files_to_fix[k] : k \in 1..Len(files_to_fix)}

\* the path the loop of main is at
Path == files_to_fix[file_idx]

\* fix_file_syntax_errors(file_path) on a path that does not exist
BatchMissing ==
    /\ pc = "main"
    /\ file_idx <= Len(files_to_fix)
    /\ ~fs[Path].exists
    /\ printed' = Append(printed, Msg("File {} does not exist", <<Path>>))
    /\ calls' = Append(calls, [path |-> Path, result |-> FALSE, wrote |-> FALSE])
    /\ file_idx' = file_idx + 1
    /\ UNCHANGED <<pc, fs, fs0, fixed_count, scriptvars, cleanvars, fixvars>>

\* fix_file_syntax_errors(file_path) when the substitutions change the content
BatchFixed ==
    /\ pc = "main"
    /\ file_idx <= Len(files_to_fix)
    /\ fs[Path].exists
    /\ LET original_content == ReadText(fs[Path].data)
           new == ApplyRules(original_content)
       IN  /\ Changed(new, original_content)
           /\ fs' = [fs EXCEPT ![Path] = [exists |-> TRUE, data |-> new]]
    /\ printed' = Append(printed, Msg("Fixed syntax errors in {}", <<Path>>))
    /\ calls' = Append(calls, [path |-> Path, result |-> TRUE, wrote |-> TRUE])
    /\ fixed_count' = fixed_count + 1
    /\ file_idx' = file_idx + 1
    /\ UNCHANGED <<pc, fs0, scriptvars, cleanvars, fixvars>>

\* fix_file_syntax_errors(file_path) when they leave it as it was
BatchUnchanged ==
    /\ pc = "main"
    /\ file_idx <= Len(files_to_fix)
    /\ fs[Path].exists
    /\ LET original_content == ReadText(fs[Path].data)
       IN  ~Changed(ApplyRules(original_content), original_content)
    /\ printed' = Append(printed, Msg("No syntax errors found in {}", <<Path>>))
    /\ calls' = Append(calls, [path |-> Path, result |-> FALSE, wrote |-> FALSE])
    /\ file_idx' = file_idx + 1
    /\ UNCHANGED <<pc, fs, fs0, fixed_count, scriptvars, cleanvars, fixvars>>

\* the loop of main is over
BatchDone ==
    /\ pc = "main"
    /\ file_idx > Len(files_to_fix)
    /\ printed' = Append(printed, Msg("\nFixed syntax errors in {} files", <<fixed_count>>))
    /\ pc' = "done"
    /\ UNCHANGED <<fs, fs0, fixed_count, file_idx, calls, scriptvars, cleanvars, fixvars>>

\* Contents of the files given to fix_remaining_syntax.py.
BatchPool ==
    { <<"x", "\r", NL, "y">>,
      <<"c", "a", "t", "c", "h", "U+00A0", "(", "e", "r", "r", "o", "r", ")", " ", "{", "}">>,
      <<"U+00E9", ":", " ", "1", "\r", "b", ":", " ", "2", ",">>,
      <<" ", "f", ":", " ", "(", "a", ")", " ", "=", ">", " ", "(", "{", "}", ",">> }

InitBatch ==
    /\ pc = "main"
    /\ fs \in [Paths -> {[exists |-> FALSE, data |-> <<>>]}
                        \cup {[exists |-> TRUE, data |-> d] : d \in BatchPool}]
    /\ fs0 = fs
    /\ file_idx = 1
    /\ fixed_count = 0
    /\ calls = <<>>
    /\ printed = <<>>
    /\ file = <<>>
    /\ file0 = <<>>
    /\ writes = 0
    /\ content = <<>>
    /\ lines = <<>>
    /\ i = 0
    /\ start_line = None
    /\ end_line = None
    /\ brace_count = 0
    /\ combined = <<>>
    /\ fixed_lines = <<>>
    /\ bracket_count = 0
    /\ paren_count = 0
    /\ run = 0
    /\ scan_of = <<>>

NextBatch ==
    \/ BatchMissing
    \/ BatchFixed
    \/ BatchUnchanged
    \/ BatchDone

SpecBatch == InitBatch /\ [][NextBatch]_vars

\* ---------------------------------------------------------------- claims on fix_remaining_syntax.py

\* C7: in the batch run a missing file is not written and yields False, every file
\* of the list is processed once, in list order, whatever happened to the files
\* before it, a present file is written (with the result of the substitutions) if
\* and only if the substitutions changed the content read from it, a file that is not
\* written stays as it was, and fixed_count is the number of files written.
C7_BatchIsolatesFiles ==
    /\ Len(calls) = file_idx - 1
    /\ \A k \in 1..Len(calls) :
          LET c == calls[k] IN
          /\ c.path = files_to_fix[k]
          /\ ~fs0[c.path].exists => (~c.result /\ ~c.wrote /\ ~fs[c.path].exists)
          /\ fs0[c.path].exists
             => LET read == ReadText(fs0[c.path].data)
                    fixed == ApplyRules(read) IN
                /\ c.wrote <=> fixed # read
                /\ c.result <=> c.wrote
                /\ fs[c.path] = IF c.wrote THEN [exists |-> TRUE, data |-> fixed]
                                 ELSE fs0[c.path]
    /\ \A k \in file_idx..Len(files_to_fix) : fs[files_to_fix[k]] = fs0[files_to_fix[k]]
    /\ fixed_count = Cardinality({k \in 1..Len(calls) : calls[k].wrote})
    /\ pc = "done" => Len(calls) = Len(files_to_fix)

C7_Witness ==
    /\ pc = "done"
    /\ ~fs0[files_to_fix[1]].exists
    /\ calls[2].wrote
    /\ ~calls[3].wrote /\ fs0[files_to_fix[3]].exists
    /\ ~fs0[files_to_fix[4]].exists
    /\ calls[5].wrote
    /\ fixed_count = 2

\* ---------------------------------------------------------------- fix_test_utils_syntax.py

\* line 13, the return type of createTestServer
Sub13 ==
    [pat  |-> Lit(<<"e", "x", "p", "o", "r", "t", " ", "f", "u", "n", "c", "t", "i", "o", "n",
                    " ", "c", "r", "e", "a", "t", "e", "T", "e", "s", "t", "S", "e", "r", "v", "e",
                    "r", "(", ")", ":", " ", "{">>)
              \o <<Ws>>
              \o Lit(<<"g", "e", "t", "S", "e", "r", "v", "e", "r", ":", " ", "(", ")", " ", "=",
                    ">", " ", "a", "n", "y", ";">>)
              \o <<Ws, Ch(","), Ws>>
              \o Lit(<<"c", "a", "l", "l", "T", "o", "o", "l", ":", " ", "(", "n", "a", "m", "e",
                    ":", " ", "s", "t", "r", "i", "n", "g", ",", " ", "a", "r", "g", "s", ":", " ",
                    "a", "n", "y", ")", " ", "=", ">", " ", "P", "r", "o", "m", "i", "s", "e", "<",
                    "a", "n", "y", ">", ";">>)
              \o <<Ws, Ch("}")>>,
     repl |-> <<Text(<<"e", "x", "p", "o", "r", "t", " ", "f", "u", "n", "c", "t", "i", "o", "n",
                       " ", "c", "r", "e", "a", "t", "e", "T", "e", "s", "t", "S", "e", "r", "v",
                       "e", "r", "(", ")", ":", " ", "{", "\n", " ", " ", "g", "e", "t", "S", "e",
                       "r", "v", "e", "r", ":", " ", "(", ")", " ", "=", ">", " ", "a", "n", "y",
                       ";", "\n", " ", " ", "c", "a", "l", "l", "T", "o", "o", "l", ":", " ", "(",
                       "n", "a", "m", "e", ":", " ", "s", "t", "r", "i", "n", "g", ",", " ", "a",
                       "r", "g", "s", ":", " ", "a", "n", "y", ")", " ", "=", ">", " ", "P", "r",
                       "o", "m", "i", "s", "e", "<", "a", "n", "y", ">", ";", "\n", "}">>)>>]

\* line 17: r'\)\s*\{\s*' -> ') {'
Sub17 ==
    [pat  |-> <<Ch(")"), Ws, Ch("{"), Ws>>,
     repl |-> <<Text(<<")", " ", "{">>)>>]

\* line 18: r'\}\s*\)\s*,' -> '}),'
Sub18 ==
    [pat  |-> <<Ch("}"), Ws, Ch(")"), Ws, Ch(",")>>,
     repl |-> <<Text(<<"}", ")", ",">>)>>]

\* line 19: r'\)\s*,\s*' -> '),\n'
Sub19 ==
    [pat  |-> <<Ch(")"), Ws, Ch(","), Ws>>,
     repl |-> <<Text(<<")", ",", "\n">>)>>]

\* line 22: r'\(\{\s*,\s*' -> '({'
Sub22 ==
    [pat  |-> <<Ch("("), Ch("{"), Ws, Ch(","), Ws>>,
     repl |-> <<Text(<<"(", "{">>)>>]

\* line 23: r'\{\s*,\s*' -> '{'
Sub23 ==
    [pat  |-> <<Ch("{"), Ws, Ch(","), Ws>>,
     repl |-> <<Text(<<"{">>)>>]

\* line 24: r',\s*\}\)\s*,' -> '}),'
Sub24 ==
    [pat  |-> <<Ch(","), Ws, Ch("}"), Ch(")"), Ws, Ch(",")>>,
     repl |-> <<Text(<<"}", ")", ",">>)>>]

\* line 25: r'\}\)\s*\)\s*,' -> '}),'
Sub25 ==
    [pat  |-> <<Ch("}"), Ch(")"), Ws, Ch(")"), Ws, Ch(",")>>,
     repl |-> <<Text(<<"}", ")", ",">>)>>]

\* line 46: r',\s*\}\s*\)\s*,\s*' -> '}),\n\n  '
Sub46 ==
    [pat  |-> <<Ch(","), Ws, Ch("}"), Ws, Ch(")"), Ws, Ch(","), Ws>>,
     repl |-> <<Text(<<"}", ")", ",", "\n", "\n", " ", " ">>)>>]

\* line 47: r'\}\)\s*\)\s*,' -> '}),'
Sub47 ==
    [pat  |-> <<Ch("}"), Ch(")"), Ws, Ch(")"), Ws, Ch(",")>>,
     repl |-> <<Text(<<"}", ")", ",">>)>>]

\* line 30, with re.DOTALL (the pattern has no ".")
authenticationError ==
    [pat  |-> Lit(<<"a", "u", "t", "h", "e", "n", "t", "i", "c", "a", "t", "i", "o", "n", "E",
                    "r", "r", "o", "r", ":", " ", "(", ")", " ", "=", ">", " ", "(", "{", ",">>)
              \o <<Ws>>
              \o Lit(<<"r", "e", "s", "p", "o", "n", "s", "e", ":", " ", "{">>)
              \o <<Ws>>
              \o Lit(<<"s", "t", "a", "t", "u", "s", ":", " ", "4", "0", "1", ",">>)
              \o <<Ws>>
              \o Lit(<<"d", "a", "t", "a", ":", " ", "{", ",">>)
              \o <<Ws>>
              \o Lit(<<"d", "e", "t", "a", "i", "l", ":", " ", "'", "A", "u", "t", "h", "e", "n",
                    "t", "i", "c", "a", "t", "i", "o", "n", " ", "f", "a", "i", "l", "e", "d", "'",
                    ",">>)
              \o <<Ws>>
              \o Lit(<<"t", "y", "p", "e", ":", " ", "'", "a", "u", "t", "h", "e", "n", "t", "i",
                    "c", "a", "t", "i", "o", "n", "_", "e", "r", "r", "o", "r", "'", ",">>)
              \o <<Ws>>
              \o Lit(<<"}", ")", ")", ",">>)
              \o <<Ws, Ch("}"), Ch(","), Ws>>
              \o Lit(<<"}", ")", ",">>),
     repl |-> <<Text(<<"a", "u", "t", "h", "e", "n", "t", "i", "c", "a", "t", "i", "o", "n", "E",
                       "r", "r", "o", "r", ":", " ", "(", ")", " ", "=", ">", " ", "(", "{", "\n",
                       " ", " ", " ", " ", "r", "e", "s", "p", "o", "n", "s", "e", ":", " ", "{",
                       "\n", " ", " ", " ", " ", " ", " ", "s", "t", "a", "t", "u", "s", ":", " ",
                       "4", "0", "1", ",", "\n", " ", " ", " ", " ", " ", " ", "d", "a", "t", "a",
                       ":", " ", "{", "\n", " ", " ", " ", " ", " ", " ", " ", " ", "d", "e", "t",
                       "a", "i", "l", ":", " ", "'", "A", "u", "t", "h", "e", "n", "t", "i", "c",
                       "a", "t", "i", "o", "n", " ", "f", "a", "i", "l", "e", "d", "'", ",", "\n",
                       " ", " ", " ", " ", " ", " ", " ", " ", "t", "y", "p", "e", ":", " ", "'",
                       "a", "u", "t", "h", "e", "n", "t", "i", "c", "a", "t", "i", "o", "n", "_",
                       "e", "r", "r", "o", "r", "'", ",", "\n", " ", " ", " ", " ", " ", " ", "}",
                       ",", "\n", " ", " ", " ", " ", "}", ",", "\n", " ", " ", "}", ")", ",">>)>>]

\* line 34, with re.DOTALL (the pattern has no ".")
rateLimited ==
    [pat  |-> Lit(<<"r", "a", "t", "e", "L", "i", "m", "i", "t", "e", "d", ":", " ", "(", ")",
                    " ", "=", ">", " ", "(", "{", ",">>)
              \o <<Ws>>
              \o Lit(<<"r", "e", "s", "p", "o", "n", "s", "e", ":", " ", "{">>)
              \o <<Ws>>
              \o Lit(<<"s", "t", "a", "t", "u", "s", ":", " ", "4", "2", "9", ",">>)
              \o <<Ws>>
              \o Lit(<<"h", "e", "a", "d", "e", "r", "s", ":", " ", "{">>)
              \o <<Star(NotCls({"}"})), Ch("}"), Ch(","), Ws>>
              \o Lit(<<"d", "a", "t", "a", ":", " ", "{", ",">>)
              \o <<Ws>>
              \o Lit(<<"d", "e", "t", "a", "i", "l", ":", " ", "'", "R", "a", "t", "e", " ", "l",
                    "i", "m", "i", "t", " ", "e", "x", "c", "e", "e", "d", "e", "d", "'", ",">>)
              \o <<Ws>>
              \o Lit(<<"}", ")", ")", ",">>)
              \o <<Ws, Ch("}"), Ch(","), Ws>>
              \o Lit(<<"}", ")", ",">>),
     repl |-> <<Text(<<"r", "a", "t", "e", "L", "i", "m", "i", "t", "e", "d", ":", " ", "(", ")",
                       " ", "=", ">", " ", "(", "{", "\n", " ", " ", " ", " ", "r", "e", "s", "p",
                       "o", "n", "s", "e", ":", " ", "{", "\n", " ", " ", " ", " ", " ", " ", "s",
                       "t", "a", "t", "u", "s", ":", " ", "4", "2", "9", ",", "\n", " ", " ", " ",
                       " ", " ", " ", "h", "e", "a", "d", "e", "r", "s", ":", " ", "{", "\n", " ",
                       " ", " ", " ", " ", " ", " ", " ", "'", "r", "e", "t", "r", "y", "-", "a",
                       "f", "t", "e", "r", "'", ":", " ", "'", "6", "0", "'", ",", "\n", " ", " ",
                       " ", " ", " ", " ", " ", " ", "'", "x", "-", "r", "a", "t", "e", "l", "i",
                       "m", "i", "t", "-", "l", "i", "m", "i", "t", "'", ":", " ", "'", "1", "0",
                       "0", "'", ",", "\n", " ", " ", " ", " ", " ", " ", " ", " ", "'", "x", "-",
                       "r", "a", "t", "e", "l", "i", "m", "i", "t", "-", "r", "e", "m", "a", "i",
                       "n", "i", "n", "g", "'", ":", " ", "'", "0", "'", ",", "\n", " ", " ", " ",
                       " ", " ", " ", "}", ",", "\n", " ", " ", " ", " ", " ", " ", "d", "a", "t",
                       "a", ":", " ", "{", "\n", " ", " ", " ", " ", " ", " ", " ", " ", "d", "e",
                       "t", "a", "i", "l", ":", " ", "'", "R", "a", "t", "e", " ", "l", "i", "m",
                       "i", "t", " ", "e", "x", "c", "e", "e", "d", "e", "d", "'", ",", "\n", " ",
                       " ", " ", " ", " ", " ", "}", ",", "\n", " ", " ", " ", " ", "}", ",", "\n",
                       " ", " ", "}", ")", ",">>)>>]

\* line 38, with re.DOTALL (the pattern has no ".")
validationError ==
    [pat  |-> Lit(<<"v", "a", "l", "i", "d", "a", "t", "i", "o", "n", "E", "r", "r", "o", "r",
                    ":", " ", "(", "f", "i", "e", "l", "d", ":", " ", "s", "t", "r", "i", "n", "g",
                    ")", " ", "=", ">", " ", "(", "{", ",">>)
              \o <<Ws>>
              \o Lit(<<"r", "e", "s", "p", "o", "n", "s", "e", ":", " ", "{">>)
              \o <<Star(NotCls({"}"})), Ch("}"), Ch(","), Ws>>
              \o Lit(<<"}", ")", ",">>),
     repl |-> <<Text(<<"v", "a", "l", "i", "d", "a", "t", "i", "o", "n", "E", "r", "r", "o", "r",
                       ":", " ", "(", "f", "i", "e", "l", "d", ":", " ", "s", "t", "r", "i", "n",
                       "g", ")", " ", "=", ">", " ", "(", "{", "\n", " ", " ", " ", " ", "r", "e",
                       "s", "p", "o", "n", "s", "e", ":", " ", "{", "\n", " ", " ", " ", " ", " ",
                       " ", "s", "t", "a", "t", "u", "s", ":", " ", "4", "0", "0", ",", "\n", " ",
                       " ", " ", " ", " ", " ", "d", "a", "t", "a", ":", " ", "{", "\n", " ", " ",
                       " ", " ", " ", " ", " ", " ", "t", "y", "p", "e", ":", " ", "'", "v", "a",
                       "l", "i", "d", "a", "t", "i", "o", "n", "_", "e", "r", "r", "o", "r", "'",
                       ",", "\n", " ", " ", " ", " ", " ", " ", " ", " ", "t", "i", "t", "l", "e",
                       ":", " ", "'", "V", "a", "l", "i", "d", "a", "t", "i", "o", "n", " ", "f",
                       "a", "i", "l", "e", "d", "'", ",", "\n", " ", " ", " ", " ", " ", " ", " ",
                       " ", "e", "r", "r", "o", "r", "s", ":", " ", "[", "\n", " ", " ", " ", " ",
                       " ", " ", " ", " ", " ", " ", "{", "\n", " ", " ", " ", " ", " ", " ", " ",
                       " ", " ", " ", " ", " ", "t", "y", "p", "e", ":", " ", "'", "i", "n", "v",
                       "a", "l", "i", "d", "_", "f", "i", "e", "l", "d", "'", ",", "\n", " ", " ",
                       " ", " ", " ", " ", " ", " ", " ", " ", " ", " ", "d", "e", "t", "a", "i",
                       "l", ":", " ", "U+0060", "I", "n", "v", "a", "l", "i", "d", " ", "v", "a",
                       "l", "u", "e", " ", "f", "o", "r", " ", "$", "{", "f", "i", "e", "l", "d",
                       "}", "U+0060", ",", "\n", " ", " ", " ", " ", " ", " ", " ", " ", " ", " ",
                       " ", " ", "f", "i", "e", "l", "d", ",", "\n", " ", " ", " ", " ", " ", " ",
                       " ", " ", " ", " ", "}", ",", "\n", " ", " ", " ", " ", " ", " ", " ", " ",
                       "]", ",", "\n", " ", " ", " ", " ", " ", " ", "}", ",", "\n", " ", " ", " ",
                       " ", "}", ",", "\n", " ", " ", "}", ")", ",">>)>>]

\* the substitutions of lines 13 to 25
SyntaxSubs == <<Sub13, Sub17, Sub18, Sub19, Sub22, Sub23, Sub24, Sub25>>
\* the list of lines 28 to 40
patterns_to_fix == <<authenticationError, rateLimited, validationError>>
\* the substitutions of lines 46 and 47
CleanUp == <<Sub46, Sub47>>

\* fix_test_utils(): the file is read, the substitutions are applied in order, and the
\* result is written whether or not it differs from what was read
fix_test_utils ==
    /\ pc = "start"
    /\ file0' = file
    /\ content' = ApplyFrom(CleanUp,
                      ApplyFrom(patterns_to_fix,
                         ApplyFrom(SyntaxSubs, ReadText(file), 1), 1), 1)
    /\ file' = content'
    /\ writes' = writes + 1
    /\ printed' = Append(printed, Msg("Fixed test-utils.ts syntax errors", <<>>))
    /\ pc' = "done"
    /\ UNCHANGED <<lines, i, cleanvars, fixvars, batchvars>>

\* Input lines of the documents given to fix_test_utils_syntax.py.
SyntaxPool ==
    { <<")", " ", "{", "\r">>,
      <<"f", "o", "o", "(", "a", ")", "U+00A0", "{", " ", ",">>,
      <<"}", " ", ")", " ", ",">>,
      <<"(", "{", " ", ",", " ", "a", ":", " ", "1", ",", " ", "}", ")", " ", " ", ",">>,
      <<"}", ")", " ", ")", " ", ",">>,
      <<",", " ", "}", ")", ")", ",">>,
      <<"e", "x", "p", "o", "r", "t", " ", "f", "u", "n", "c", "t", "i", "o", "n", " ", "c", "r",
        "e", "a", "t", "e", "T", "e", "s", "t", "S", "e", "r", "v", "e", "r", "(", ")", ":", " ",
        "{", " ", "g", "e", "t", "S", "e", "r", "v", "e", "r", ":", " ", "(", ")", " ", "=", ">",
        " ", "a", "n", "y", ";", " ", ",", " ", "c", "a", "l", "l", "T", "o", "o", "l", ":", " ",
        "(", "n", "a", "m", "e", ":", " ", "s", "t", "r", "i", "n", "g", ",", " ", "a", "r", "g",
        "s", ":", " ", "a", "n", "y", ")", " ", "=", ">", " ", "P", "r", "o", "m", "i", "s", "e",
        "<", "a", "n", "y", ">", ";", " ", "}">> }

InitSyntax ==
    /\ pc = "start"
    /\ file \in {Join(<<NL>>, ls) : ls \in Streams(SyntaxPool, MaxLines)}
    /\ file0 = <<>>
    /\ writes = 0
    /\ printed = <<>>
    /\ content = <<>>
    /\ lines = <<>>
    /\ i = 0
    /\ start_line = None
    /\ end_line = None
    /\ brace_count = 0
    /\ combined = <<>>
    /\ fixed_lines = <<>>
    /\ bracket_count = 0
    /\ paren_count = 0
    /\ run = 0
    /\ scan_of = <<>>
    /\ fs = [p \in Paths |-> [exists |-> FALSE, data |-> <<>>]]
    /\ fs0 = fs
    /\ file_idx = 1
    /\ fixed_count = 0
    /\ calls = <<>>

NextSyntax == fix_test_utils

SpecSyntax == InitSyntax /\ [][NextSyntax]_vars

====
